---- MODULE Spec2Model ----
(***************************************************************************)
(* ccsound: audio-notification hooks kept inside the settings file of      *)
(* Claude Code.  The model follows src/src/lib/{hooks,config,utils}.ts,    *)
(* the test module and the commander handlers of src/src/bin/cli.ts.       *)
(*                                                                         *)
(* Strings the code inspects character by character (hook commands, audio  *)
(* paths) are sequences of one-character strings, so that the regular      *)
(* expressions, the "~" expansion and path.resolve are computed and not    *)
(* assumed.  JSON objects are records whose DOMAIN is the set of keys that *)
(* are present.                                                            *)
(***************************************************************************)
EXTENDS Integers, Sequences, FiniteSets, TLC

VARIABLES
    platform,   \* os.platform() of the machine
    sounds,     \* names of the system sounds whose file exists on the machine
    settings,   \* ~/.claude/settings.json on disk
    pending,    \* addSoundHook calls the running command has still to make
    cli,        \* the command line being run, or the last one that ended
    last,       \* the last library call: its arguments, its outcome, the file before it
    fs,         \* step by step: the files at the paths the program can name
    procs,      \* step by step: the invocations, each at a step of its load or save
    accessed    \* step by step: the paths read or written so far

vars == <<platform, sounds, settings, pending, cli, last, fs, procs, accessed>>

----------------------------------------------------------------------------
(* Characters and strings                                                  *)

QUOTE == "\""
SPACE == " "
SLASH == "/"
TILDE == "~"

\* process.env.HOME and process.cwd() of the invocations
HOME == <<"/", "h">>
CWD  == <<"/", "w">>

\* audioFile.replace(/^~/, process.env.HOME || '')
ExpandHome(s) ==
    IF Len(s) > 0 /\ s[1] = TILDE THEN HOME \o Tail(s) ELSE s

\* s.split(sep): the pieces of s between occurrences of the character sep
RECURSIVE SplitAcc(_, _, _, _)
SplitAcc(s, sep, cur, acc) ==
    IF s = <<>> THEN Append(acc, cur)
    ELSE IF Head(s) = sep THEN SplitAcc(Tail(s), sep, <<>>, Append(acc, cur))
    ELSE SplitAcc(Tail(s), sep, Append(cur, Head(s)), acc)

Split(s, sep) == SplitAcc(s, sep, <<>>, <<>>)

\* path normalisation of path.resolve: "" and "." segments are dropped,
\* ".." removes the segment before it
RECURSIVE NormSegs(_, _)
NormSegs(segs, acc) ==
    IF segs = <<>> THEN acc
    ELSE LET g == Head(segs) IN
         IF g = <<>> \/ g = <<".">> THEN NormSegs(Tail(segs), acc)
         ELSE IF g = <<".", ".">>
              THEN NormSegs(Tail(segs),
                            IF acc = <<>> THEN acc ELSE SubSeq(acc, 1, Len(acc) - 1))
              ELSE NormSegs(Tail(segs), Append(acc, g))

RECURSIVE JoinSegs(_)
JoinSegs(segs) ==
    IF segs = <<>> THEN <<>>
    ELSE <<SLASH>> \o Head(segs) \o JoinSegs(Tail(segs))

\* path.resolve(p) (posix): absolute, normalised; relative paths start at cwd
resolve(p) ==
    LET full == IF Len(p) > 0 /\ p[1] = SLASH THEN p ELSE CWD \o <<SLASH>> \o p
        segs == NormSegs(Split(full, SLASH), <<>>)
    IN  IF segs = <<>> THEN <<SLASH>> ELSE JoinSegs(segs)

\* length of the longest prefix of s, from position i, whose characters
\* all satisfy: (c = ch) = same
RECURSIVE RunLen(_, _, _, _)
RunLen(s, i, ch, same) ==
    IF i > Len(s) \/ ((s[i] = ch) # same) THEN 0
    ELSE 1 + RunLen(s, i + 1, ch, same)

NoMatch == [ok |-> FALSE, path |-> <<>>]

\* "?([^"]+)"?$ tried at position i of cmd, with the optional opening
\* quote taken (q = 1) or not (q = 0)
TailMatch(cmd, i, q) ==
    LET j == i + q
        m == RunLen(cmd, j, QUOTE, FALSE)
    IN  IF q = 1 /\ (i > Len(cmd) \/ cmd[i] # QUOTE) THEN NoMatch
        ELSE IF m = 0 THEN NoMatch
        ELSE IF j + m - 1 = Len(cmd)
                  \/ (j + m = Len(cmd) /\ cmd[j + m] = QUOTE)
             THEN [ok |-> TRUE, path |-> SubSeq(cmd, j, j + m - 1)]
             ELSE NoMatch

\* the backtracking of \s+ : k spaces taken, most first
RECURSIVE SpaceBacktrack(_, _, _)
SpaceBacktrack(cmd, n1, k) ==
    IF k < 1 THEN NoMatch
    ELSE LET i == n1 + k + 1 IN
         IF TailMatch(cmd, i, 1).ok THEN TailMatch(cmd, i, 1)
         ELSE IF TailMatch(cmd, i, 0).ok THEN TailMatch(cmd, i, 0)
         ELSE SpaceBacktrack(cmd, n1, k - 1)

\* hook.command.match(/^(\S+)\s+"?([^"]+)"?$/): ok and group 2
commandParts(cmd) ==
    LET n1 == RunLen(cmd, 1, SPACE, FALSE)
        w  == RunLen(cmd, n1 + 1, SPACE, TRUE)
    IN  IF n1 = 0 \/ w = 0 THEN NoMatch ELSE SpaceBacktrack(cmd, n1, w)

\* hook.command.match(/"([^"]+)"/)?.[1]: the first quoted, non-empty substring
RECURSIVE firstQuoted(_, _)
firstQuoted(cmd, i) ==
    IF i > Len(cmd) THEN NoMatch
    ELSE LET m == RunLen(cmd, i + 1, QUOTE, FALSE) IN
         IF cmd[i] = QUOTE /\ m > 0 /\ i + 1 + m <= Len(cmd)
         THEN [ok |-> TRUE, path |-> SubSeq(cmd, i + 1, i + m)]
         ELSE firstQuoted(cmd, i + 1)

\* hook.command.match(/"([^"]+)"/)?.[1] || hook.command.split(' ')[1]
\* ok is the truthiness of the result (undefined and '' are falsy)
extractAudioFile(cmd) ==
    LET q == firstQuoted(cmd, 1)
        parts == Split(cmd, SPACE)
    IN  IF q.ok THEN q
        ELSE IF Len(parts) >= 2 /\ parts[2] # <<>>
             THEN [ok |-> TRUE, path |-> parts[2]]
             ELSE NoMatch

----------------------------------------------------------------------------
(* Platform, audio files                                                   *)

Platforms == {"darwin", "linux", "win32"}

\* utils.ts getAudioPlayer
getAudioPlayer(p) ==
    CASE p = "darwin" -> <<"a", "f", "p", "l", "a", "y">>
      [] p = "linux"  -> <<"a", "p", "l", "a", "y">>
      [] p = "win32"  ->
           \* powershell -c "(New-Object Media.SoundPlayer '%s').PlaySync();"
           <<"p", "o", "w", "e", "r", "s", "h", "e", "l", "l", " ", "-", "c", " ", "\"",
             "(", "N", "e", "w", "-", "O", "b", "j", "e", "c", "t", " ", "M", "e", "d", "i", "a", ".", "S", "o", "u", "n", "d",
             "P", "l", "a", "y", "e", "r", " ", "'", "%", "s", "'", ")", 
             ".", "P", "l", "a", "y", "S", "y", "n", "c", "(", ")", ";", "\"">>
      [] OTHER        -> <<"a", "f", "p", "l", "a", "y">>

Tink  == <<"T", "i", "n", "k">>
Glass == <<"G", "l", "a", "s", "s">>
Ping  == <<"P", "i", "n", "g">>
Pop   == <<"P", "o", "p">>

SoundNames == {Tink, Glass, Ping, Pop}

\* utils.ts getSystemSoundPath
getSystemSoundPath(p, soundName) ==
    CASE p = "darwin" ->
           <<"/", "S", "y", "s", "t", "e", "m", "/", 
             "L", "i", "b", "r", "a", "r", "y", "/", "S", "o", "u", "n", "d", "s", "/">>
           \o soundName \o <<".", "a", "i", "f", "f">>
      [] p = "linux"  ->
           <<"/", "u", "s", "r", "/", "s", "h", "a", "r", "e", 
             "/", "s", "o", "u", "n", "d", "s", "/", "a", "l", "s", "a", "/">>
           \o soundName \o <<".", "w", "a", "v">>
      [] p = "win32"  -> soundName
      [] OTHER        ->
           <<"/", "S", "y", "s", "t", "e", "m", "/", 
             "L", "i", "b", "r", "a", "r", "y", "/", "S", "o", "u", "n", "d", "s", "/">>
           \o soundName \o <<".", "a", "i", "f", "f">>

\* the audio paths given on the command line
PathTildeA == <<"~", "/", "a">>      \* ~/a
PathA      == <<"/", "h", "/", "a">>  \* /h/a, the expansion of ~/a
PathB      == <<"/", "h", "/", "b">>  \* /h/b
PathGone   == <<"/", "h", "/", "m">>  \* /h/m, no such file

\* the files of the user that exist
UserFiles == {PathA, PathB}

\* the files access(path, F_OK) finds: the user's files and the system sounds
\* installed on the machine (win32 has sound names, not sound files)
ExistingFiles(p, snd) ==
    UserFiles \cup
    (IF p = "win32" THEN {} ELSE {resolve(getSystemSoundPath(p, n)) : n \in snd})

\* a faulty validateAudioFile: every path passes
validateAudioFile_any(p, snd, audioFile) == TRUE

\* utils.ts validateAudioFile: .exists
validateAudioFile(p, snd, audioFile) ==
    resolve(ExpandHome(audioFile)) \in ExistingFiles(p, snd)

----------------------------------------------------------------------------
(* The settings document (types/index.ts) and config.ts                    *)

\* hooks.ts:25, utils.ts:10, test.ts:7, in iteration order
VALID_EVENTS == <<"Stop", "Notification", "PreToolUse", "PostToolUse", "SubagentStop">>

Range(s) == {s[i] : i \in 1..Len(s)}

Recognized == Range(VALID_EVENTS)

\* a hook event of Claude Code that ccsound does not handle
ForeignEvent == "UserPromptSubmit"

\* package.json "version", read at import time (hooks.ts:22-23)
version == "1.0.1"

\* record r with key k set to v (obj[k] = v)
SetKey(r, k, v) == [j \in DOMAIN r \cup {k} |-> IF j = k THEN v ELSE r[j]]

EmptyObject == [j \in {} |-> j]

\* config.ts ensureHooksStructure
ensureHooksStructure(config) ==
    IF "hooks" \in DOMAIN config THEN config ELSE SetKey(config, "hooks", EmptyObject)

\* config.ts getEventHooks: the value returned
getEventHooks(config, event) ==
    LET c == ensureHooksStructure(config) IN
    IF event \in DOMAIN c.hooks THEN c.hooks[event] ELSE <<>>

\* a faulty setEventHooks: a new document with the one event entry
setEventHooks_only(config, event, hooks) ==
    SetKey(EmptyObject, "hooks", SetKey(EmptyObject, event, hooks))

\* config.ts setEventHooks: config after the call
setEventHooks(config, event, hooks) ==
    LET c == ensureHooksStructure(config) IN
    SetKey(c, "hooks", SetKey(c.hooks, event, hooks))

\* the settings file: absent, text that JSON.parse rejects, or a JSON text.
\* layout tells the text JSON.stringify(config, null, 2) + '\n' from any
\* other text with the same parsed value.
Absent    == [state |-> "absent"]
Malformed == [state |-> "malformed"]
FileOf(config, layout) == [state |-> "json", layout |-> layout, doc |-> config]

\* config.ts writeSettingsFile: the settings file after a save that succeeds
writeSettingsFile(config) == FileOf(config, "stringify2")

\* a faulty default document: no hooks key
defaultSettings_bare == EmptyObject

defaultSettings == [hooks |-> EmptyObject]

\* a faulty readSettingsFile: text that does not parse is replaced by the
\* default document
readSettingsFile_repair(file) ==
    CASE file.state \in {"absent", "malformed"} ->
           [status |-> "ok", config |-> defaultSettings,
            disk |-> writeSettingsFile(defaultSettings), writes |-> 1]
      [] OTHER ->
           [status |-> "ok", config |-> file.doc, disk |-> file, writes |-> 0]

\* config.ts readSettingsFile.  status "exit" is process.exit(1) on a
\* SyntaxError; disk is the settings file when the call ends; writes counts
\* the calls of writeSettingsFile.
readSettingsFile(file) ==
    CASE file.state = "absent" ->
           [status |-> "ok", config |-> defaultSettings,
            disk |-> writeSettingsFile(defaultSettings), writes |-> 1]
      [] file.state = "malformed" ->
           [status |-> "exit", config |-> defaultSettings, disk |-> file, writes |-> 0]
      [] OTHER ->
           [status |-> "ok", config |-> file.doc, disk |-> file, writes |-> 0]

----------------------------------------------------------------------------
(* hooks.ts: the hook registry                                             *)

\* hooks.ts createWatermark; created and id come from the clock and uuidv4
createWatermark(stamp) ==
    [version |-> version, managed |-> TRUE, created |-> stamp.created, id |-> stamp.id]

NoMatcher == ""

\* a faulty createAudioHook: a matcher is attached for every event
createAudioHook_anyEvent(p, event, audioFile, matcher, stamp) ==
    LET hook == [type |-> "command",
                 command |-> getAudioPlayer(p) \o <<SPACE, QUOTE>> \o ExpandHome(audioFile)
                             \o <<QUOTE>>,
                 _ccsound |-> createWatermark(stamp)]
    IN  IF matcher # NoMatcher
        THEN [matchers |-> <<matcher>>, hooks |-> <<hook>>]
        ELSE [hooks |-> <<hook>>]

\* hooks.ts createAudioHook
createAudioHook(p, event, audioFile, matcher, stamp) ==
    LET player == getAudioPlayer(p)
        expandedPath == ExpandHome(audioFile)
        hook == [type |-> "command",
                 command |-> player \o <<SPACE, QUOTE>> \o expandedPath \o <<QUOTE>>,
                 _ccsound |-> createWatermark(stamp)]
    IN  IF matcher # NoMatcher /\ event \in {"PreToolUse", "PostToolUse"}
        THEN [matchers |-> <<matcher>>, hooks |-> <<hook>>]
        ELSE [hooks |-> <<hook>>]

\* h._ccsound && h._ccsound.managed
Watermarked(h) == "_ccsound" \in DOMAIN h /\ h._ccsound.managed

\* a faulty isccsoundManaged: every entry of the group has to be watermarked
isccsoundManaged_every(hookGroup) ==
    /\ hookGroup.hooks # <<>>
    /\ \A i \in 1..Len(hookGroup.hooks) : Watermarked(hookGroup.hooks[i])

\* hooks.ts isccsoundManaged
isccsoundManaged(hookGroup) ==
    \E i \in 1..Len(hookGroup.hooks) : Watermarked(hookGroup.hooks[i])

\* the inner loop of findExistingAudioHook: some command of the group
\* resolves to expandedPath
GroupPlays(hookGroup, expandedPath) ==
    \E i \in 1..Len(hookGroup.hooks) :
        LET hook == hookGroup.hooks[i]
            commandParts_ == commandParts(hook.command)
        IN  /\ hook.type = "command"
            /\ hook.command # <<>>
            /\ commandParts_.ok
            /\ resolve(ExpandHome(commandParts_.path)) = expandedPath

\* a faulty lookup: the groups of other tools are looked at too
RECURSIVE findFrom_anyGroup(_, _, _)
findFrom_anyGroup(eventHooks, expandedPath, i) ==
    IF i > Len(eventHooks) THEN 0
    ELSE IF GroupPlays(eventHooks[i], expandedPath)
         THEN i
         ELSE findFrom_anyGroup(eventHooks, expandedPath, i + 1)

\* hooks.ts findExistingAudioHook: the index of the group returned, 0 for null
RECURSIVE findFrom(_, _, _)
findFrom(eventHooks, expandedPath, i) ==
    IF i > Len(eventHooks) THEN 0
    ELSE IF isccsoundManaged(eventHooks[i]) /\ GroupPlays(eventHooks[i], expandedPath)
         THEN i
         ELSE findFrom(eventHooks, expandedPath, i + 1)

findExistingAudioHook(eventHooks, audioFile) ==
    findFrom(eventHooks, resolve(ExpandHome(audioFile)), 1)

\* Array.prototype.filter with isccsoundManaged(group) = keep
RECURSIVE FilterManaged(_, _)
FilterManaged(groups, keep) ==
    IF groups = <<>> THEN <<>>
    ELSE IF isccsoundManaged(Head(groups)) = keep
         THEN <<Head(groups)>> \o FilterManaged(Tail(groups), keep)
         ELSE FilterManaged(Tail(groups), keep)

\* hooks.ts findExistingccsoundHooks
findExistingccsoundHooks(eventHooks) == FilterManaged(eventHooks, TRUE)

\* a faulty filter: the groups of other tools are dropped too
nonccsoundHooks_none(eventHooks) == <<>>

\* hooks.ts:113, 175, 207: eventHooks.filter(g => !isccsoundManaged(g))
nonccsoundHooks(eventHooks) == FilterManaged(eventHooks, FALSE)

\* a faulty replacement: the new group is appended to all the groups
updatedHooks_append(eventHooks, newHook) == eventHooks \o <<newHook>>

\* hooks.ts:118
updatedHooks(eventHooks, newHook) == nonccsoundHooks(eventHooks) \o <<newHook>>

\* a faulty count: one, whenever a managed group is removed
removedCount_one(eventHooks) ==
    IF Len(eventHooks) > Len(nonccsoundHooks(eventHooks)) THEN 1 ELSE 0

\* hooks.ts:176, 208
removedCount(eventHooks) == Len(eventHooks) - Len(nonccsoundHooks(eventHooks))

\* hooks.ts addSoundHook.  exit 1 is process.exit(1), exit 0 a normal return;
\* disk is the settings file when the call ends; loads and writes count the
\* calls of readSettingsFile and writeSettingsFile.
addSoundHook(p, snd, file, event, audioFile, matcher, stamp) ==
    IF event \notin Recognized
    THEN [outcome |-> "invalid-event", exit |-> 1, disk |-> file, loads |-> 0, writes |-> 0]
    ELSE IF ~validateAudioFile(p, snd, audioFile)
    THEN [outcome |-> "file-not-found", exit |-> 1, disk |-> file, loads |-> 0, writes |-> 0]
    ELSE
    LET rd == readSettingsFile(file)
        eventHooks == getEventHooks(rd.config, event)
        exactMatch == findExistingAudioHook(eventHooks, audioFile)
        existingccsoundHooks == findExistingccsoundHooks(eventHooks)
        newHook == createAudioHook(p, event, audioFile, matcher, stamp)
        config == setEventHooks(rd.config, event, updatedHooks(eventHooks, newHook))
    IN  IF rd.status = "exit"
        THEN [outcome |-> "parse-error", exit |-> 1, disk |-> rd.disk,
              loads |-> 1, writes |-> rd.writes]
        ELSE IF exactMatch # 0
        THEN [outcome |-> "exists", exit |-> 0, disk |-> rd.disk,
              loads |-> 1, writes |-> rd.writes]
        ELSE [outcome |-> IF Len(existingccsoundHooks) > 0 THEN "replaced" ELSE "added",
              exit |-> 0, disk |-> writeSettingsFile(config),
              loads |-> 1, writes |-> rd.writes + 1]

\* hooks.ts removeHooks
removeHooks(file, event) ==
    IF event \notin Recognized
    THEN [outcome |-> "invalid-event", exit |-> 1, disk |-> file,
          loads |-> 0, writes |-> 0, count |-> 0]
    ELSE
    LET rd == readSettingsFile(file)
        eventHooks == getEventHooks(rd.config, event)
        filteredHooks == nonccsoundHooks(eventHooks)
        n == removedCount(eventHooks)
    IN  IF rd.status = "exit"
        THEN [outcome |-> "parse-error", exit |-> 1, disk |-> rd.disk,
              loads |-> 1, writes |-> rd.writes, count |-> 0]
        ELSE IF n = 0
        THEN [outcome |-> "none", exit |-> 0, disk |-> rd.disk,
              loads |-> 1, writes |-> rd.writes, count |-> 0]
        ELSE [outcome |-> "removed", exit |-> 0,
              disk |-> writeSettingsFile(setEventHooks(rd.config, event, filteredHooks)),
              loads |-> 1, writes |-> rd.writes + 1, count |-> n]

\* the loop of clearAllHooks (hooks.ts:205-214) from the i-th event on:
\* the config and totalRemoved when it ends
RECURSIVE clearLoop(_, _, _)
clearLoop(config, totalRemoved, i) ==
    IF i > Len(VALID_EVENTS) THEN [config |-> config, totalRemoved |-> totalRemoved]
    ELSE LET event == VALID_EVENTS[i]
             eventHooks == getEventHooks(config, event)
             n == removedCount(eventHooks)
         IN  IF n > 0
             THEN clearLoop(setEventHooks(config, event, nonccsoundHooks(eventHooks)),
                            totalRemoved + n, i + 1)
             ELSE clearLoop(ensureHooksStructure(config), totalRemoved, i + 1)

\* a faulty clearAllHooks: the answer to the prompt is not looked at, and
\* the document is saved whatever was removed
clearAllHooks_unasked(file, confirm) ==
    LET rd == readSettingsFile(file)
        res == clearLoop(rd.config, 0, 1)
    IN  IF rd.status = "exit"
        THEN [outcome |-> "parse-error", exit |-> 1, disk |-> rd.disk,
              loads |-> 1, writes |-> rd.writes, count |-> 0]
        ELSE [outcome |-> "removed", exit |-> 0, disk |-> writeSettingsFile(res.config),
              loads |-> 1, writes |-> rd.writes + 1, count |-> res.totalRemoved]

\* hooks.ts clearAllHooks; confirm is the answer to the inquirer prompt
clearAllHooks(file, confirm) ==
    IF ~confirm
    THEN [outcome |-> "cancelled", exit |-> 0, disk |-> file,
          loads |-> 0, writes |-> 0, count |-> 0]
    ELSE
    LET rd == readSettingsFile(file)
        res == clearLoop(rd.config, 0, 1)
    IN  IF rd.status = "exit"
        THEN [outcome |-> "parse-error", exit |-> 1, disk |-> rd.disk,
              loads |-> 1, writes |-> rd.writes, count |-> 0]
        ELSE IF res.totalRemoved = 0
        THEN [outcome |-> "none", exit |-> 0, disk |-> rd.disk,
              loads |-> 1, writes |-> rd.writes, count |-> 0]
        ELSE [outcome |-> "removed", exit |-> 0, disk |-> writeSettingsFile(res.config),
              loads |-> 1, writes |-> rd.writes + 1, count |-> res.totalRemoved]

\* a faulty applyPreset: the development preset walked in the order of the
\* complete preset
presetEntries_reordered(p, presetName) ==
    CASE presetName = "minimal" ->
           << <<"Stop", getSystemSoundPath(p, Tink)>> >>
      [] presetName = "complete" ->
           << <<"Stop", getSystemSoundPath(p, Tink)>>,
              <<"Notification", getSystemSoundPath(p, Glass)>>,
              <<"PreToolUse", getSystemSoundPath(p, Ping)>>,
              <<"PostToolUse", getSystemSoundPath(p, Pop)>>,
              <<"SubagentStop", getSystemSoundPath(p, Tink)>> >>
      [] presetName = "development" ->
           << <<"Stop", getSystemSoundPath(p, Tink)>>,
              <<"PreToolUse", getSystemSoundPath(p, Ping)>>,
              <<"PostToolUse", getSystemSoundPath(p, Pop)>> >>
      [] OTHER -> <<>>

\* hooks.ts applyPreset: Object.entries(presets[presetName]), an event and
\* the path of its system sound, in the order the object literal lists them
presetEntries(p, presetName) ==
    CASE presetName = "minimal" ->
           << <<"Stop", getSystemSoundPath(p, Tink)>> >>
      [] presetName = "complete" ->
           << <<"Stop", getSystemSoundPath(p, Tink)>>,
              <<"Notification", getSystemSoundPath(p, Glass)>>,
              <<"PreToolUse", getSystemSoundPath(p, Ping)>>,
              <<"PostToolUse", getSystemSoundPath(p, Pop)>>,
              <<"SubagentStop", getSystemSoundPath(p, Tink)>> >>
      [] presetName = "development" ->
           << <<"PreToolUse", getSystemSoundPath(p, Ping)>>,
              <<"PostToolUse", getSystemSoundPath(p, Pop)>>,
              <<"Stop", getSystemSoundPath(p, Tink)>> >>
      [] OTHER -> <<>>

\* cli.ts:450
validPresets == {"minimal", "complete", "development"}

----------------------------------------------------------------------------
(* test.ts: testing the configured hooks                                   *)

\* test.ts:10-12, the module's own ownership test
testIsManaged(hookGroup) ==
    /\ "hooks" \in DOMAIN hookGroup
    /\ \E i \in 1..Len(hookGroup.hooks) : Watermarked(hookGroup.hooks[i])

RECURSIVE testFilter(_)
testFilter(groups) ==
    IF groups = <<>> THEN <<>>
    ELSE IF testIsManaged(Head(groups))
         THEN <<Head(groups)>> \o testFilter(Tail(groups))
         ELSE testFilter(Tail(groups))

\* the hooks of the groups, in the order the two nested loops visit them
RECURSIVE hooksOf(_)
hooksOf(groups) ==
    IF groups = <<>> THEN <<>> ELSE Head(groups).hooks \o hooksOf(Tail(groups))

\* the hook passes the two guards: a command with an audio file in it
HasAudioFile(hook) ==
    hook.type = "command" /\ hook.command # <<>> /\ extractAudioFile(hook.command).ok

\* test.ts:36-74 and 107-152: the counters after the loops over ccsoundHooks.
\* playOk: execSync(hook.command) returns (TRUE) or throws (FALSE).
testLoop(p, snd, ccsoundHooks, dryRun, playOk) ==
    LET hs == hooksOf(ccsoundHooks)
        tested  == {i \in 1..Len(hs) : HasAudioFile(hs[i])}
        present == {i \in tested :
                       validateAudioFile(p, snd, extractAudioFile(hs[i].command).path)}
        missing == tested \ present
    IN  [success |-> IF dryRun \/ playOk THEN Cardinality(present) ELSE 0,
         failure |-> Cardinality(missing)
                     + (IF dryRun \/ playOk THEN 0 ELSE Cardinality(present)),
         played  |-> IF dryRun THEN 0 ELSE Cardinality(present)]

\* test.ts testSpecificEvent
testSpecificEvent(p, snd, file, event, dryRun, playOk) ==
    IF event \notin Recognized
    THEN [outcome |-> "invalid-event", exit |-> 1, disk |-> file, loads |-> 0,
          writes |-> 0, success |-> 0, failure |-> 0, played |-> 0]
    ELSE
    LET rd == readSettingsFile(file)
        ccsoundHooks == testFilter(getEventHooks(rd.config, event))
        r == testLoop(p, snd, ccsoundHooks, dryRun, playOk)
    IN  IF rd.status = "exit"
        THEN [outcome |-> "parse-error", exit |-> 1, disk |-> rd.disk, loads |-> 1,
              writes |-> rd.writes, success |-> 0, failure |-> 0, played |-> 0]
        ELSE IF Len(ccsoundHooks) = 0
        THEN [outcome |-> "no-hooks", exit |-> 0, disk |-> rd.disk, loads |-> 1,
              writes |-> rd.writes, success |-> 0, failure |-> 0, played |-> 0]
        ELSE [outcome |-> "results", exit |-> 0, disk |-> rd.disk, loads |-> 1,
              writes |-> rd.writes, success |-> r.success, failure |-> r.failure,
              played |-> r.played]

\* the loop of testAllEvents over eventsToTest (test.ts:93-155) from the
\* i-th event on, added to the counters acc
RECURSIVE testAllLoop(_, _, _, _, _, _, _)
testAllLoop(p, snd, config, dryRun, playOk, acc, i) ==
    IF i > Len(VALID_EVENTS) THEN acc
    ELSE LET ccsoundHooks == testFilter(getEventHooks(config, VALID_EVENTS[i]))
             r == testLoop(p, snd, ccsoundHooks, dryRun, playOk)
         IN  IF Len(ccsoundHooks) = 0
             THEN testAllLoop(p, snd, config, dryRun, playOk, acc, i + 1)
             ELSE testAllLoop(p, snd, config, dryRun, playOk,
                      [success |-> acc.success + r.success,
                       failure |-> acc.failure + r.failure,
                       played |-> acc.played + r.played,
                       testedEvents |-> acc.testedEvents + 1], i + 1)

\* test.ts testAllEvents (options.events is never set by the command line)
testAllEvents(p, snd, file, dryRun, playOk) ==
    LET rd == readSettingsFile(file)
        r == testAllLoop(p, snd, rd.config, dryRun, playOk,
                 [success |-> 0, failure |-> 0, played |-> 0, testedEvents |-> 0], 1)
    IN  IF rd.status = "exit"
        THEN [outcome |-> "parse-error", exit |-> 1, disk |-> rd.disk, loads |-> 1,
              writes |-> rd.writes, success |-> 0, failure |-> 0, played |-> 0]
        ELSE IF r.testedEvents = 0
        THEN [outcome |-> "no-hooks", exit |-> 0, disk |-> rd.disk, loads |-> 1,
              writes |-> rd.writes, success |-> 0, failure |-> 0, played |-> 0]
        ELSE [outcome |-> "results", exit |-> 0, disk |-> rd.disk, loads |-> 1,
              writes |-> rd.writes, success |-> r.success, failure |-> r.failure,
              played |-> r.played]

----------------------------------------------------------------------------
(* The machines and the settings files the commands are run on             *)

\* the clock and uuidv4 at a createWatermark call
Stamps == {[created |-> "2026-01-01T00:00:00.000Z", id |-> "ccsound_0a1b2c3d"]}

\* a watermark written by an earlier run of the tool
OldMark(managed) ==
    [version |-> "1.0.0", managed |-> managed,
     created |-> "2025-01-01T00:00:00.000Z", id |-> "test_hook_001"]

\* <player> "<path>", as createAudioHook writes it
PlayCommand(p, path) == getAudioPlayer(p) \o <<SPACE, QUOTE>> \o path \o <<QUOTE>>

EchoHi == <<"e", "c", "h", "o", " ", "h", "i">>           \* echo hi
EchoTestHook == <<"e", "c", "h", "o", " ", "\"", 
                  "t", "e", "s", "t", " ", "h", "o", "o", "k", "\"">>   \* echo "test hook"

\* hook groups of other tools: no watermark, or one that says managed: false
GForeign == [hooks |-> << [type |-> "command", command |-> EchoHi] >>]
GForeignPlays(p, path) ==
    [hooks |-> << [type |-> "command", command |-> PlayCommand(p, path)] >>]
GDisowned(p, path) ==
    [hooks |-> << [type |-> "command", command |-> PlayCommand(p, path),
                   _ccsound |-> OldMark(FALSE)] >>]

\* hook groups of the tool
GManaged(p, path) ==
    [hooks |-> << [type |-> "command", command |-> PlayCommand(p, path),
                   _ccsound |-> OldMark(TRUE)] >>]
GManagedMatcher(p, path) ==
    [matchers |-> <<"Bash">>,
     hooks |-> << [type |-> "command", command |-> PlayCommand(p, path),
                   _ccsound |-> OldMark(TRUE)] >>]
\* a watermarked entry next to an entry without a watermark
GMixed(p, path) ==
    [hooks |-> << [type |-> "command", command |-> PlayCommand(p, path),
                   _ccsound |-> OldMark(TRUE)],
                  [type |-> "command", command |-> EchoHi] >>]
\* the hook of the integration tests (test/integration, beforeEach)
GTestHook ==
    [hooks |-> << [type |-> "command", command |-> EchoTestHook,
                   _ccsound |-> OldMark(TRUE)] >>]

DocNoHooks == [permissions |-> "allow"]

\* one managed group per event at most, among groups of other tools
DocTidy(p) ==
    [model |-> "opus",
     hooks |-> [Stop |-> <<GForeign, GManaged(p, PathA), GForeignPlays(p, PathB)>>,
                PreToolUse |-> <<GManagedMatcher(p, PathB)>>,
                Notification |-> <<GDisowned(p, PathA)>>,
                UserPromptSubmit |-> <<GManaged(p, PathA), GForeign>>]]

\* several managed groups under one event
DocCrowded(p) ==
    [permissions |-> "allow",
     hooks |-> [Stop |-> <<GManaged(p, PathA), GForeign, GManaged(p, PathB)>>,
                PreToolUse |-> <<GForeignPlays(p, PathA), GMixed(p, PathGone),
                                 GManaged(p, PathB)>>,
                UserPromptSubmit |-> <<GManaged(p, PathB)>>]]

InitialSettings(p) ==
    IF p = "linux" THEN {Absent}
    ELSE {Absent, Malformed}
         \cup {FileOf(d, "foreign") : d \in {DocNoHooks, DocTidy(p), DocCrowded(p)}}

\* the machines: a platform and the system sounds installed on it
Machines ==
    {[platform |-> "darwin", sounds |-> {Tink}],
     [platform |-> "linux", sounds |-> {Tink, Glass}],
     [platform |-> "win32", sounds |-> {}]}

----------------------------------------------------------------------------
(* The command line (cli.ts) and the state machine                         *)

\* the values the command-line arguments are drawn from
EventArgs == {"Stop", "PreToolUse", ForeignEvent}
EventLists == {<<>>, <<"Stop">>, <<ForeignEvent>>, <<"Stop", ForeignEvent>>}
NoFile == <<>>
FileArgs == {NoFile, PathTildeA, PathA, PathGone}
\* add-sound [--event e | --events e1,e2] [--file f] [--matcher m]
AddSoundArgs ==
    {[events |-> ev, file |-> f, matcher |-> NoMatcher] : ev \in EventLists, f \in FileArgs}
    \cup {[events |-> <<e>>, file |-> PathA, matcher |-> "Bash"] :
              e \in {"Stop", "PreToolUse"}}
PresetArgs == validPresets \cup {"silent"}
\* test [event] [--all] [--dry-run], and whether the player works
TestArgs ==
    {[events |-> ev, all |-> FALSE, dryRun |-> TRUE, playOk |-> TRUE] :
         ev \in {<<>>, <<"Stop">>, <<ForeignEvent>>}}
    \cup {[events |-> <<ForeignEvent>>, all |-> TRUE, dryRun |-> TRUE, playOk |-> TRUE],
          [events |-> <<"Stop">>, all |-> FALSE, dryRun |-> FALSE, playOk |-> FALSE]}

NoArgs ==
    [event |-> "", file |-> NoFile, matcher |-> NoMatcher, confirm |-> FALSE,
     all |-> FALSE, dryRun |-> FALSE, playOk |-> FALSE]

Field(r, k, default) == IF k \in DOMAIN r THEN r[k] ELSE default

\* what `last` records of a library call: op, the arguments, the result r
\* and the settings file before the call
Call(op, args, r, before) ==
    [op |-> op, event |-> args.event, file |-> args.file, matcher |-> args.matcher,
     confirm |-> args.confirm, all |-> args.all, dryRun |-> args.dryRun,
     playOk |-> args.playOk,
     outcome |-> r.outcome, exit |-> r.exit, loads |-> r.loads, writes |-> r.writes,
     count |-> Field(r, "count", 0), success |-> Field(r, "success", 0),
     failure |-> Field(r, "failure", 0), played |-> Field(r, "played", 0),
     before |-> before]

\* no library call: the command line was rejected by cli.ts itself
NoCall(before) ==
    Call("none", NoArgs,
         [outcome |-> "none", exit |-> 0, loads |-> 0, writes |-> 0], before)

Command(name, events, all, exit, before) ==
    [name |-> name, events |-> events, all |-> all, exit |-> exit, before |-> before]

Idle == pending = <<>>

Init ==
    /\ \E m \in Machines : platform = m.platform /\ sounds = m.sounds
    /\ settings \in InitialSettings(platform)
    /\ pending = <<>>
    /\ cli = Command("none", <<>>, FALSE, 0, settings)
    /\ last = NoCall(settings)
    /\ fs = <<>> /\ procs = <<>> /\ accessed = {}

\* process.exit(1) in the commander handler, before any library call
Rejected(name, events, all) ==
    /\ cli' = Command(name, events, all, 1, settings)
    /\ last' = NoCall(settings)
    /\ pending' = <<>>
    /\ UNCHANGED <<platform, sounds, settings, fs, procs, accessed>>

\* await addSoundHook(a.event, a.file, {matcher}) in the loop of command c,
\* the calls in rest still to make
RunAdd(a, rest, c, stamp) ==
    LET r == addSoundHook(platform, sounds, settings, a.event, a.file, a.matcher, stamp)
    IN  /\ settings' = r.disk
        /\ last' = Call("add", [NoArgs EXCEPT !.event = a.event, !.file = a.file,
                                              !.matcher = a.matcher], r, settings)
        /\ pending' = IF r.exit = 1 THEN <<>> ELSE rest
        /\ cli' = [c EXCEPT !.exit = r.exit]
        /\ UNCHANGED <<platform, sounds, fs, procs, accessed>>

\* cli.ts:368-393, add-sound: the checks of the options and the first turn
\* of the loop over the events
AddSoundCmd ==
    \E a \in AddSoundArgs, stamp \in Stamps :
        /\ Idle
        /\ IF a.file = NoFile \/ a.events = <<>>
           THEN Rejected("add-sound", a.events, FALSE)
           ELSE LET calls == [i \in 1..Len(a.events) |->
                                 [event |-> a.events[i], file |-> a.file,
                                  matcher |-> a.matcher]]
                IN  RunAdd(Head(calls), Tail(calls),
                           Command("add-sound", a.events, FALSE, 0, settings), stamp)

\* the preset command: the name given and the events of its mapping
PresetCommand(presetName, events, exit, before) ==
    Command("preset", events, FALSE, exit, before) @@ [preset |-> presetName]

\* cli.ts:446-456 and hooks.ts:225-254, preset: the check of the name and
\* the first turn of the loop over the entries
PresetCmd ==
    \E presetName \in PresetArgs, stamp \in Stamps :
        /\ Idle
        /\ IF presetName \notin validPresets
           THEN /\ cli' = PresetCommand(presetName, <<>>, 1, settings)
                /\ last' = NoCall(settings)
                /\ pending' = <<>>
                /\ UNCHANGED <<platform, sounds, settings, fs, procs, accessed>>
           ELSE LET entries == presetEntries(platform, presetName)
                    calls == [i \in 1..Len(entries) |->
                                 [event |-> entries[i][1], file |-> entries[i][2],
                                  matcher |-> NoMatcher]]
                IN  RunAdd(Head(calls), Tail(calls),
                           PresetCommand(presetName,
                                         [i \in 1..Len(entries) |-> entries[i][1]],
                                         0, settings), stamp)

\* a later turn of the loop of add-sound (cli.ts:390-392) or of applyPreset
\* (hooks.ts:252-254)
AddSoundHookCall ==
    \E stamp \in Stamps :
        /\ pending # <<>>
        /\ RunAdd(Head(pending), Tail(pending), cli, stamp)

\* cli.ts:421-430, remove <event>
RemoveCmd ==
    \E event \in EventArgs :
        /\ Idle
        /\ LET r == removeHooks(settings, event) IN
               /\ settings' = r.disk
               /\ last' = Call("remove", [NoArgs EXCEPT !.event = event], r, settings)
               /\ cli' = Command("remove", <<event>>, FALSE, r.exit, settings)
        /\ UNCHANGED <<platform, sounds, pending, fs, procs, accessed>>

\* cli.ts:432-437, clear
ClearCmd ==
    \E confirm \in BOOLEAN :
        /\ Idle
        /\ LET r == clearAllHooks(settings, confirm) IN
               /\ settings' = r.disk
               /\ last' = Call("clear", [NoArgs EXCEPT !.confirm = confirm], r, settings)
               /\ cli' = Command("clear", <<>>, FALSE, r.exit, settings)
        /\ UNCHANGED <<platform, sounds, pending, fs, procs, accessed>>

\* cli.ts:402-419, test [event] [--all] [--dry-run]
TestCmd ==
    \E t \in TestArgs :
        /\ Idle
        /\ IF ~t.all /\ t.events = <<>>
           THEN Rejected("test", t.events, t.all)
           ELSE LET r == IF t.all
                         THEN testAllEvents(platform, sounds, settings, t.dryRun, t.playOk)
                         ELSE testSpecificEvent(platform, sounds, settings, t.events[1],
                                                t.dryRun, t.playOk)
                IN  /\ settings' = r.disk
                    /\ last' = Call("test",
                                    [NoArgs EXCEPT !.event = IF t.all THEN "" ELSE t.events[1],
                                                   !.all = t.all, !.dryRun = t.dryRun,
                                                   !.playOk = t.playOk],
                                    r, settings)
                    /\ cli' = Command("test", t.events, t.all, r.exit, settings)
                    /\ UNCHANGED <<platform, sounds, pending, fs, procs, accessed>>

Next ==
    \/ AddSoundCmd
    \/ PresetCmd
    \/ AddSoundHookCall
    \/ RemoveCmd
    \/ ClearCmd
    \/ TestCmd

Spec == Init /\ [][Next]_vars

\* The preset command on machines that have all, some or none of the system
\* sounds the presets name.
PresetMachines ==
    {[platform |-> "darwin", sounds |-> SoundNames],
     [platform |-> "darwin", sounds |-> {Tink, Glass, Ping}],
     [platform |-> "linux", sounds |-> {Tink}],
     [platform |-> "win32", sounds |-> {}]}

PresetInit ==
    /\ \E m \in PresetMachines : platform = m.platform /\ sounds = m.sounds
    /\ settings \in {Absent, Malformed, FileOf(DocTidy(platform), "foreign"),
                      FileOf(DocCrowded(platform), "foreign")}
    /\ pending = <<>>
    /\ cli = Command("none", <<>>, FALSE, 0, settings)
    /\ last = NoCall(settings)
    /\ fs = <<>> /\ procs = <<>> /\ accessed = {}

PresetNext ==
    \/ PresetCmd
    \/ AddSoundHookCall
    \/ ClearCmd

PresetSpec == PresetInit /\ [][PresetNext]_vars

----------------------------------------------------------------------------
(* config.ts step by step: the load and the save of an invocation as the    *)
(* file-system calls they make, with I/O errors, crashes and a second       *)
(* invocation running at the same time                                      *)

\* a faulty getSettingsPath: the settings file of the current directory
getSettingsPath_cwd(home) ==
    CWD \o <<"/", ".", "c", "l", "a", "u", "d", "e", "/", "s", "e", "t", "t", "i", "n", "g", "s", ".", "j", "s", "o", "n">>

\* config.ts getSettingsPath: join(homedir(), '.claude', 'settings.json')
getSettingsPath(home) ==
    home \o <<"/", ".", "c", "l", "a", "u", "d", "e", "/", "s", "e", "t", "t", "i", "n", "g", "s", ".", "j", "s", "o", "n">>
settingsPath == getSettingsPath(HOME)
\* config.ts:63 and :68
backupPath == settingsPath \o <<".", "b", "a", "c", "k", "u", "p">>
tempPath == settingsPath \o <<".", "t", "m", "p">>
\* the settings file of the project the command is run in
\* (join(process.cwd(), '.claude', 'settings.json'))
localSettingsPath == getSettingsPath(CWD)

Paths == {settingsPath, backupPath, tempPath, localSettingsPath}

\* a file whose writer stopped before the end of the text
Partial == [state |-> "partial"]

\* the document of the project settings file
DocLocal == [hooks |-> [Stop |-> <<GForeign>>]]

Invocations == {"first", "second"}

\* what an invocation is asked to do: one call of the registry
IoOps ==
    {[op |-> "add", event |-> "Stop", file |-> PathB],
     [op |-> "remove", event |-> "Stop", file |-> NoFile]}

NoConfig == [none |-> TRUE]

\* an invocation: the step it is at, its operation, the config it holds in
\* memory, the text it is saving, the settings file when its save began,
\* where the save returns to, the error thrown and the step that threw it,
\* its loads and saves, whether its rename was the last one, and whether it
\* started when every other invocation had returned
NewInvocation(op) ==
    [pc |-> "idle", op |-> op, config |-> NoConfig, text |-> Absent, old |-> Absent,
     ret |-> "", error |-> "", failedAt |-> "", loaded |-> NoConfig,
     loads |-> 0, saves |-> 0, renamedLast |-> FALSE, follows |-> FALSE]

SaveSteps == {"s_exists", "s_copy", "s_write", "s_remove", "s_rename", "s_chmod", "s_unbackup"}
LoadSteps == {"l_exists", "l_read"}
Ended == {"done", "failed", "exit1", "crashed"}

\* files with the file at path set to content
PutFile(files, path, content) == [files EXCEPT ![path] = content]

\* config.ts:65 copy(settingsPath, backupPath)
copyBackup(files) == PutFile(files, backupPath, files[settingsPath])

\* config.ts:69 writeFile(tempPath, JSON.stringify(config, null, 2) + '\n')
writeTemp(files, config) == PutFile(files, tempPath, writeSettingsFile(config))

\* config.ts:71 move(tempPath, settingsPath, {overwrite: true}), first half:
\* fs-extra removes the destination before it renames
moveRemove(files) == PutFile(files, settingsPath, Absent)

\* config.ts:71 move, second half: rename(tempPath, settingsPath)
moveRename(files) ==
    PutFile(PutFile(files, settingsPath, files[tempPath]), tempPath, Absent)

\* config.ts:75-77 remove(backupPath) when it exists
removeBackup(files) == PutFile(files, backupPath, Absent)

\* a faulty catch block: it deletes the backup
catchWrite_cleanup(files) == PutFile(files, backupPath, Absent)

\* config.ts:78-81, the catch block of writeSettingsFile: the files after it
catchWrite(files) == files

\* writeSettingsFile(config) begins in invocation p; ret is where it returns
BeginSave(p, config, ret) ==
    [p EXCEPT !.pc = "s_exists", !.config = config, !.text = writeSettingsFile(config),
              !.ret = ret, !.saves = p.saves + 1]

\* an error with code thrown at the step p is at.  An ENOENT thrown by the
\* save of the default document inside the try of readSettingsFile is caught
\* at config.ts:39-45, which saves the default document again; every other
\* error reaches the caller.
Throw(p, code) ==
    IF p.ret = "load" /\ code = "ENOENT" /\ p.pc \in SaveSteps
    THEN BeginSave(p, defaultSettings, "load-again")
    ELSE [p EXCEPT !.pc = "failed", !.error = code, !.failedAt = p.pc]

\* the registry call of invocation p on the config it loaded
Mutation(p, stamp) ==
    CASE p.op.op = "add" ->
           addSoundHook(platform, sounds, FileOf(p.config, "memory"),
                        p.op.event, p.op.file, NoMatcher, stamp)
      [] p.op.op = "remove" -> removeHooks(FileOf(p.config, "memory"), p.op.event)
      [] p.op.op = "doctor" -> [disk |-> FileOf(p.config, "memory")]

Step(i, p, files, paths) ==
    /\ procs' = [procs EXCEPT ![i] = p]
    /\ fs' = files
    /\ accessed' = accessed \cup paths
    /\ UNCHANGED <<platform, sounds, settings, pending, cli, last>>

\* the command starts: readSettingsFile is called
Start ==
    \E i \in Invocations :
        /\ procs[i].pc = "idle"
        /\ Step(i, [procs[i] EXCEPT !.pc = "l_exists", !.loads = 1,
                                    !.follows = \A j \in Invocations \ {i} :
                                                    procs[j].pc = "done"],
                fs, IF procs[i].op.op = "doctor" THEN {settingsPath} ELSE {})

\* config.ts:28-34 pathExists(settingsPath)
LoadExists ==
    \E i \in Invocations :
        /\ procs[i].pc = "l_exists"
        /\ Step(i, IF fs[settingsPath] = Absent
                   THEN BeginSave(procs[i], defaultSettings, "load")
                   ELSE [procs[i] EXCEPT !.pc = "l_read"],
                fs, {settingsPath})

\* config.ts:36-51 readFile and JSON.parse
ReadFile ==
    \E i \in Invocations :
        /\ procs[i].pc = "l_read"
        /\ Step(i, CASE fs[settingsPath] = Absent ->
                          BeginSave(procs[i], defaultSettings, "load-again")
                     [] fs[settingsPath].state \in {"malformed", "partial"} ->
                          [procs[i] EXCEPT !.pc = "exit1"]
                     [] OTHER ->
                          [procs[i] EXCEPT !.pc = "mutate",
                                           !.config = fs[settingsPath].doc,
                                           !.loaded = fs[settingsPath].doc],
                fs, {settingsPath})

\* hooks.ts:102-121 or 173-181: the change in memory, then writeSettingsFile
\* when there is something to write
Mutate ==
    \E i \in Invocations, stamp \in Stamps :
        /\ procs[i].pc = "mutate"
        /\ LET r == Mutation(procs[i], stamp) IN
           Step(i, IF r.disk.layout = "memory"
                   THEN [procs[i] EXCEPT !.pc = "done"]
                   ELSE BeginSave(procs[i], r.disk.doc, "op"),
                fs, {})

\* config.ts:64 pathExists(settingsPath)
SaveExists ==
    \E i \in Invocations :
        /\ procs[i].pc = "s_exists"
        /\ Step(i, [procs[i] EXCEPT !.pc = IF fs[settingsPath] = Absent
                                           THEN "s_write" ELSE "s_copy",
                                    !.old = fs[settingsPath]],
                fs, {settingsPath})

\* config.ts:65
Copy ==
    \E i \in Invocations :
        /\ procs[i].pc = "s_copy"
        /\ IF fs[settingsPath] = Absent
           THEN Step(i, Throw(procs[i], "ENOENT"), catchWrite(fs), {settingsPath})
           ELSE Step(i, [procs[i] EXCEPT !.pc = "s_write"], copyBackup(fs),
                     {settingsPath, backupPath})

\* config.ts:69
WriteTemp ==
    \E i \in Invocations :
        /\ procs[i].pc = "s_write"
        /\ Step(i, [procs[i] EXCEPT !.pc = "s_remove"],
                writeTemp(fs, procs[i].config), {tempPath})

\* config.ts:71, move: stat(src), then remove(dest)
MoveRemove ==
    \E i \in Invocations :
        /\ procs[i].pc = "s_remove"
        /\ IF fs[tempPath] = Absent
           THEN Step(i, Throw(procs[i], "ENOENT"), catchWrite(fs), {tempPath})
           ELSE Step(i, [procs[i] EXCEPT !.pc = "s_rename"], moveRemove(fs),
                     {tempPath, settingsPath})

\* config.ts:71, move: rename(src, dest)
MoveRename ==
    \E i \in Invocations :
        /\ procs[i].pc = "s_rename"
        /\ IF fs[tempPath] = Absent
           THEN Step(i, Throw(procs[i], "ENOENT"), catchWrite(fs), {tempPath})
           ELSE /\ procs' = [j \in Invocations |->
                               IF j = i
                               THEN [procs[j] EXCEPT !.pc = "s_chmod", !.renamedLast = TRUE]
                               ELSE [procs[j] EXCEPT !.renamedLast = FALSE]]
                /\ fs' = moveRename(fs)
                /\ accessed' = accessed \cup {tempPath, settingsPath}
                /\ UNCHANGED <<platform, sounds, settings, pending, cli, last>>

\* config.ts:73
Chmod ==
    \E i \in Invocations :
        /\ procs[i].pc = "s_chmod"
        /\ IF fs[settingsPath] = Absent
           THEN Step(i, Throw(procs[i], "ENOENT"), catchWrite(fs), {settingsPath})
           ELSE Step(i, [procs[i] EXCEPT !.pc = "s_unbackup"], fs, {settingsPath})

\* config.ts:75-77, and the return of writeSettingsFile
RemoveBackup ==
    \E i \in Invocations :
        /\ procs[i].pc = "s_unbackup"
        /\ Step(i, [procs[i] EXCEPT !.pc = IF procs[i].ret = "op" THEN "done" ELSE "mutate"],
                removeBackup(fs), {backupPath})

\* a file-system call of the save fails (EACCES, ENOSPC, EIO); a write that
\* fails may leave a part of the text
IoError ==
    \E i \in Invocations, part \in BOOLEAN :
        /\ procs[i].pc \in SaveSteps \ {"s_exists"}
        /\ part => procs[i].pc = "s_write"
        /\ Step(i, Throw(procs[i], "EIO"),
                catchWrite(IF part THEN PutFile(fs, tempPath, Partial) ELSE fs), {})

\* the process is killed, or the machine stops; a write that is cut may
\* leave a part of the text
Crash ==
    \E i \in Invocations, part \in BOOLEAN :
        /\ procs[i].pc \in SaveSteps \cup LoadSteps \cup {"mutate"}
        /\ part => procs[i].pc = "s_write"
        /\ Step(i, [procs[i] EXCEPT !.pc = "crashed", !.failedAt = procs[i].pc],
                IF part THEN PutFile(fs, tempPath, Partial) ELSE fs, {})

\* the settings file, a backup left by a save that failed, and the project
\* settings file, before the invocations start
InitialFiles ==
    {[path \in Paths |->
        CASE path = settingsPath -> s
          [] path = backupPath -> b
          [] path = tempPath -> Absent
          [] OTHER -> FileOf(DocLocal, "foreign")] :
     s \in {Absent, Malformed, FileOf(DocTidy("darwin"), "foreign"),
            FileOf(DocCrowded("darwin"), "foreign")},
     b \in {Absent, FileOf(DocNoHooks, "foreign")}}

IoInit ==
    /\ platform = "darwin"
    /\ sounds = {Tink}
    /\ settings = Absent
    /\ pending = <<>>
    /\ cli = Command("none", <<>>, FALSE, 0, settings)
    /\ last = NoCall(settings)
    /\ fs \in InitialFiles
    /\ procs \in [Invocations -> {NewInvocation(op) : op \in IoOps}]
    /\ accessed = {}

IoNext ==
    \/ Start
    \/ LoadExists
    \/ ReadFile
    \/ Mutate
    \/ SaveExists
    \/ Copy
    \/ WriteTemp
    \/ MoveRemove
    \/ MoveRename
    \/ Chmod
    \/ RemoveBackup
    \/ IoError
    \/ Crash

IoSpec == IoInit /\ [][IoNext]_vars

\* The commands run in a project that has a settings file of its own:
\* doctor (utils.ts:104-142: access(settingsPath, W_OK), then
\* readSettingsFile) and add-sound.
ProjectOps ==
    {[op |-> "add", event |-> "Stop", file |-> PathB],
     [op |-> "doctor", event |-> "", file |-> NoFile]}

\* a project settings file with a managed group
DocLocalManaged == [hooks |-> [Stop |-> <<GManaged("darwin", PathA)>>]]

ProjectFiles ==
    {[path \in Paths |->
        CASE path = settingsPath -> s
          [] path = backupPath -> Absent
          [] path = tempPath -> Absent
          [] OTHER -> l] :
     s \in {Absent, FileOf(DocTidy("darwin"), "foreign")},
     l \in {Absent, Malformed, FileOf(DocLocal, "foreign"),
            FileOf(DocLocalManaged, "foreign")}}

ProjectInit ==
    /\ platform = "darwin"
    /\ sounds = {Tink}
    /\ settings = Absent
    /\ pending = <<>>
    /\ cli = Command("none", <<>>, FALSE, 0, settings)
    /\ last = NoCall(settings)
    /\ fs \in ProjectFiles
    /\ procs \in [Invocations -> {NewInvocation(op) : op \in ProjectOps}]
    /\ accessed = {}

ProjectSpec == ProjectInit /\ [][IoNext]_vars

----------------------------------------------------------------------------
(* Properties.  They read the settings file directly, not through the       *)
(* operators of the registry.                                              *)

\* the five recognized event kinds
FiveKinds == {"Stop", "Notification", "PreToolUse", "PostToolUse", "SubagentStop"}

HasDoc(file) == file.state = "json"

\* the top-level keys of the document in the file
TopKeys(file) == IF HasDoc(file) THEN DOMAIN file.doc ELSE {}

\* the event names that have an entry under hooks
EventKeys(file) ==
    IF HasDoc(file) /\ "hooks" \in DOMAIN file.doc THEN DOMAIN file.doc.hooks ELSE {}

\* the hook groups stored under event
GroupsOf(file, event) ==
    IF event \in EventKeys(file) THEN file.doc.hooks[event] ELSE <<>>

\* a managed group: one of its entries carries the watermark with managed true
Marked(g) ==
    \E i \in 1..Len(g.hooks) :
        "_ccsound" \in DOMAIN g.hooks[i] /\ g.hooks[i]._ccsound.managed = TRUE
Unmarked(g) == ~Marked(g)

ManagedGroups(file, event) == SelectSeq(GroupsOf(file, event), Marked)
UnmanagedGroups(file, event) == SelectSeq(GroupsOf(file, event), Unmarked)
ManagedCount(file, event) == Len(ManagedGroups(file, event))

AtMostOneManaged(file) == \A e \in FiveKinds : ManagedCount(file, e) <= 1

\* the path a file argument names
Resolved(audioFile) == resolve(ExpandHome(audioFile))

\* the events the last library call works on
Targets == IF last.op = "clear" THEN FiveKinds ELSE {last.event}

\* the last library call changed the registry and saved it
Mutated ==
    \/ last.op = "add" /\ last.outcome \in {"added", "replaced"}
    \/ last.op = "remove" /\ last.outcome = "removed"
    \/ last.op = "clear" /\ last.confirm /\ last.outcome = "removed"

C3_ExactlyOneManagedAfterAdd ==
    (last.op = "add" /\ last.exit = 0) => ManagedCount(settings, last.event) = 1

\* C3: an add succeeded on an event that had two managed groups, one of them
\* playing the path added.
C3_Witness ==
    /\ last.op = "add"
    /\ last.exit = 0
    /\ ManagedCount(last.before, last.event) = 2
    /\ \E i \in 1..2 :
           LET parts == commandParts(ManagedGroups(last.before, last.event)[i].hooks[1].command)
           IN  parts.ok /\ Resolved(parts.path) = Resolved(last.file)

\* C4: an add for the event and the path of the add that succeeded just
\* before it reports 'already exists', writes nothing, leaves the document
\* of the first call, and the event has exactly one managed group.
C4_SecondAddIsNoOp ==
    [][(/\ last.op = "add" /\ last.exit = 0
        /\ last'.op = "add"
        /\ last'.event = last.event
        /\ Resolved(last'.file) = Resolved(last.file))
       => (/\ last'.outcome = "exists"
           /\ last'.writes = 0
           /\ settings' = settings
           /\ ManagedCount(settings', last'.event) = 1)]_vars

\* C4: an add was made for an event whose one managed group plays the path
\* the add names, and the add returned.
C4_Witness ==
    /\ last.op = "add"
    /\ last.exit = 0
    /\ ManagedCount(last.before, last.event) = 1
    /\ ManagedGroups(last.before, last.event)[1].hooks[1].command
           = PlayCommand(platform, Resolved(last.file))

\* C5: a step from a settings file with at most one managed group under
\* each recognized event leads to a settings file with at most one managed
\* group under each recognized event.
C5_AtMostOneManagedKept ==
    [][AtMostOneManaged(settings) => AtMostOneManaged(settings')]_vars

\* C5: a second sound was added to an event that had a managed group, in a
\* document with at most one managed group per event, and evicted the first.
C5_Witness ==
    /\ last.op = "add"
    /\ last.outcome = "replaced"
    /\ AtMostOneManaged(last.before)
    /\ ManagedCount(last.before, last.event) = 1
    /\ ManagedCount(settings, last.event) = 1
    /\ ManagedGroups(settings, last.event)[1].hooks[1].command
           # ManagedGroups(last.before, last.event)[1].hooks[1].command

\* C6: an add with the absolute expansion of the home-relative path of the
\* add that succeeded just before it for the same event, or the reverse, is
\* the 'already exists' no-op and leaves the stored group as it was.
C6_TildeAndAbsoluteAreOneFile ==
    [][(/\ last.op = "add" /\ last.exit = 0
        /\ last'.op = "add"
        /\ last'.event = last.event
        /\ {last.file, last'.file} = {PathTildeA, PathA})
       => (/\ last'.outcome = "exists"
           /\ ManagedGroups(settings', last'.event) = ManagedGroups(settings, last.event))]_vars

\* C6: an add naming ~/a returned on an event whose managed group plays /h/a.
C6_Witness ==
    /\ last.op = "add"
    /\ last.exit = 0
    /\ last.file = PathTildeA
    /\ ManagedCount(last.before, last.event) = 1
    /\ ManagedGroups(last.before, last.event)[1].hooks[1].command
           = PlayCommand(platform, PathA)

\* C7: an add for a recognized event whose audio file does not exist ends
\* with the file-not-found error and exit code 1, makes no write, and leaves
\* the settings file as it was, absent if it was absent.
C7_MissingFileRejected ==
    (/\ last.op = "add"
     /\ last.event \in FiveKinds
     /\ Resolved(last.file) \notin ExistingFiles(platform, sounds))
    => (/\ last.outcome = "file-not-found"
        /\ last.exit = 1
        /\ cli.exit = 1
        /\ last.writes = 0
        /\ settings = last.before)

\* C7: an add named a file that does not exist while there was no settings
\* file, and there is still none.
C7_Witness ==
    /\ last.op = "add"
    /\ last.file = PathGone
    /\ last.outcome = "file-not-found"
    /\ last.before = Absent
    /\ settings = Absent

\* C8: an add-sound, remove or test command given an event name outside the
\* five recognized kinds ends with a non-zero exit code and the settings
\* file as it was before the command.
C8_UnrecognizedEventRejected ==
    (/\ Idle
     /\ cli.name \in {"add-sound", "remove", "test"}
     /\ \E i \in 1..Len(cli.events) : cli.events[i] \notin FiveKinds)
    => (cli.exit # 0 /\ settings = cli.before)

\* C8: an add-sound command given a recognized and an unrecognized event
\* ended.
C8_Witness ==
    /\ Idle
    /\ cli.name = "add-sound"
    /\ cli.events = <<"Stop", ForeignEvent>>
    /\ last.outcome = "invalid-event"

\* C9: a remove for a recognized event on a settings file that can be read
\* leaves no managed group under the event, keeps its unmanaged groups, and
\* reports the number of managed groups the event had.
C9_RemoveRemovesManagedOnly ==
    (/\ last.op = "remove"
     /\ last.event \in FiveKinds
     /\ last.before # Malformed)
    => (/\ last.exit = 0
        /\ ManagedCount(settings, last.event) = 0
        /\ UnmanagedGroups(settings, last.event) = UnmanagedGroups(last.before, last.event)
        /\ last.count = ManagedCount(last.before, last.event))

\* C9: a remove on an event with two managed groups and one unmanaged group.
C9_Witness ==
    /\ last.op = "remove"
    /\ ManagedCount(last.before, last.event) = 2
    /\ Len(UnmanagedGroups(last.before, last.event)) = 1
    /\ last.count = 2
    /\ Len(GroupsOf(settings, last.event)) = 1

\* C10: a clear that is not confirmed leaves the settings file as it was,
\* without a load or a save; a confirmed clear on a settings file that can
\* be read makes one load and at most one save, leaves no managed group
\* under any recognized event, and reports the sum over the five events of
\* the managed groups each had.
C10_ClearAll ==
    /\ (last.op = "clear" /\ ~last.confirm)
       => (settings = last.before /\ last.loads = 0 /\ last.writes = 0)
    /\ (last.op = "clear" /\ last.confirm /\ last.before # Malformed)
       => (/\ last.exit = 0
           /\ last.loads = 1
           /\ last.writes <= 1
           /\ \A e \in FiveKinds : ManagedCount(settings, e) = 0
           /\ last.count = ManagedCount(last.before, "Stop")
                           + ManagedCount(last.before, "Notification")
                           + ManagedCount(last.before, "PreToolUse")
                           + ManagedCount(last.before, "PostToolUse")
                           + ManagedCount(last.before, "SubagentStop"))

\* C10: a confirmed clear removed the managed groups of two events in one
\* save.
C10_Witness ==
    /\ last.op = "clear"
    /\ last.confirm
    /\ ManagedCount(last.before, "Stop") = 2
    /\ ManagedCount(last.before, "PreToolUse") = 2
    /\ last.count = 4
    /\ last.writes = 1

----------------------------------------------------------------------------
(* Properties of the load and the save                                     *)

\* no other invocation has started
Alone(i) == \A j \in Invocations \ {i} : procs[j].pc = "idle"

\* invocation i is inside a save, past the check of config.ts:64, or was
\* killed there
InSave(i) ==
    \/ procs[i].pc \in SaveSteps \ {"s_exists"}
    \/ procs[i].pc = "crashed" /\ procs[i].failedAt \in SaveSteps \ {"s_exists"}

\* C11: while an invocation that runs alone is saving, and after it was
\* killed between two steps of its save, the settings path holds the
\* complete document it held when the save began or the complete new
\* document, never a part of one and never no file where there was one.
C11_SettingsPathNeverTorn ==
    \A i \in Invocations :
        (Alone(i) /\ InSave(i)) => fs[settingsPath] \in {procs[i].old, procs[i].text}

\* C11: an invocation that runs alone was killed inside the move of its
\* save, over a settings file that existed.
C11_Witness ==
    \E i \in Invocations :
        /\ Alone(i)
        /\ procs[i].pc = "crashed"
        /\ procs[i].failedAt = "s_rename"
        /\ procs[i].old # Absent

\* C12: in a save by an invocation that runs alone, the settings file that
\* existed is in the backup path before the temporary file or the settings
\* path is written; after a save that succeeds neither the backup nor the
\* temporary file is there; when the copy, the write of the temporary file
\* or the rename fails, the error reaches the caller and the backup that
\* was made is still there.
C12_BackupKeptOnFailure ==
    \A i \in Invocations :
        Alone(i) =>
            /\ (procs[i].pc = "s_copy")
               => (fs[tempPath] = Absent /\ fs[settingsPath] = procs[i].old)
            /\ (procs[i].pc \in {"s_write", "s_remove", "s_rename", "s_chmod", "s_unbackup"}
                /\ procs[i].old # Absent)
               => fs[backupPath] = procs[i].old
            /\ (procs[i].pc \in {"done", "mutate"} /\ procs[i].saves > 0)
               => (fs[backupPath] = Absent /\ fs[tempPath] = Absent)
            /\ (procs[i].pc # "failed")
               => procs[i].error = ""
            /\ (procs[i].pc = "failed")
               => (/\ procs[i].error # ""
                   /\ procs[i].failedAt \in SaveSteps
                   /\ (procs[i].failedAt # "s_copy" /\ procs[i].old # Absent)
                      => fs[backupPath] = procs[i].old)

\* C12: the rename of a save over a settings file that existed failed.
C12_Witness ==
    \E i \in Invocations :
        /\ Alone(i)
        /\ procs[i].pc = "failed"
        /\ procs[i].failedAt = "s_rename"
        /\ procs[i].old # Absent
        /\ fs[backupPath] = procs[i].old

\* the last library call loads the settings file, the file being readable
\* or not
LoadsSettings ==
    \/ last.op = "add" /\ last.event \in FiveKinds
       /\ Resolved(last.file) \in ExistingFiles(platform, sounds)
    \/ last.op = "remove" /\ last.event \in FiveKinds
    \/ last.op = "clear" /\ last.confirm
    \/ last.op = "test" /\ (last.all \/ last.event \in FiveKinds)

\* C13: a call that loads a settings file whose text is not valid JSON ends
\* the process with the parse error and exit code 1, and the settings file
\* is the same text afterwards: nothing is written.
C13_MalformedNeverOverwritten ==
    (LoadsSettings /\ last.before = Malformed)
    => (/\ last.outcome = "parse-error"
        /\ last.exit = 1
        /\ cli.exit = 1
        /\ last.loads = 1
        /\ last.writes = 0
        /\ settings = Malformed)

\* C13: a remove was run on a settings file that is not valid JSON.
C13_Witness ==
    /\ last.op = "remove"
    /\ last.before = Malformed
    /\ last.outcome = "parse-error"
    /\ settings = Malformed

\* the empty document, {hooks: {}}, and the text a save of it leaves
EmptyDocument == [hooks |-> <<>>]
EmptyDocumentFile == [state |-> "json", layout |-> "stringify2", doc |-> EmptyDocument]

\* invocation i found no settings file, saved the default document once, and
\* its load has returned
LoadedFromNothing(i) ==
    /\ procs[i].ret = "load"
    /\ procs[i].pc \in {"mutate", "done"}
    /\ procs[i].saves = 1

\* C14: a load that finds no settings file leaves the text of {hooks: {}} at
\* the settings path and returns {hooks: {}}; the load of an invocation that
\* follows returns {hooks: {}} too, and has saved nothing.
C14_FirstRunIdempotent ==
    \A i \in Invocations :
        /\ (Alone(i) /\ LoadedFromNothing(i))
           => (procs[i].config = EmptyDocument /\ fs[settingsPath] = EmptyDocumentFile)
        /\ \A j \in Invocations \ {i} :
               (/\ LoadedFromNothing(i) /\ procs[i].pc = "done"
                /\ procs[j].follows /\ procs[j].pc = "mutate")
               => (/\ procs[j].ret = ""
                   /\ procs[j].loaded = EmptyDocument
                   /\ procs[j].saves = 0
                   /\ fs[settingsPath] = EmptyDocumentFile)

\* C14: one invocation created the settings file and ended, and the load of
\* the other has read it.
C14_Witness ==
    \E i \in Invocations, j \in Invocations :
        /\ i # j
        /\ LoadedFromNothing(i)
        /\ procs[i].pc = "done"
        /\ procs[j].follows
        /\ procs[j].pc = "mutate"
        /\ procs[j].loaded = EmptyDocument

\* the config the load of invocation p returned
Snapshot(p) == IF p.loaded = NoConfig THEN defaultSettings ELSE p.loaded

\* the text invocation p saves last, computed from its own load: the change
\* of its operation when that writes, else the default document its load
\* created
OwnDocument(p) ==
    LET r == IF p.op.op = "add"
             THEN addSoundHook(platform, sounds, FileOf(Snapshot(p), "memory"),
                               p.op.event, p.op.file, NoMatcher,
                               CHOOSE stamp \in Stamps : TRUE)
             ELSE removeHooks(FileOf(Snapshot(p), "memory"), p.op.event)
    IN  IF r.disk.layout = "memory" THEN writeSettingsFile(Snapshot(p)) ELSE r.disk

\* the run is over and no file-system call failed for a reason other than
\* the other invocation
RanToTheEnd ==
    \A i \in Invocations :
        procs[i].pc \in {"done", "failed"} /\ procs[i].error \in {"", "ENOENT"}

\* C15: when two invocations have interleaved their loads and saves, nothing
\* having stopped either, the settings file is the document of the
\* invocation that renamed last, computed from the load of that invocation.
C15_LastRenameWins ==
    RanToTheEnd =>
        \A i \in Invocations :
            procs[i].renamedLast => fs[settingsPath] = OwnDocument(procs[i])

\* C15: two invocations loaded the same document and both saved a change;
\* the settings file is the document of the one that renamed last and the
\* change of the other is not in it.
C15_Witness ==
    \E i \in Invocations, j \in Invocations :
        /\ i # j
        /\ procs[i].pc = "done" /\ procs[j].pc = "done"
        /\ procs[i].ret = "op" /\ procs[j].ret = "op"
        /\ procs[i].loaded = procs[j].loaded
        /\ procs[i].text # procs[j].text
        /\ procs[i].renamedLast
        /\ fs[settingsPath] = procs[i].text

----------------------------------------------------------------------------
(* Properties of the preset command                                        *)

\* the events of each preset, in the order of its mapping
PresetEvents(name) ==
    CASE name = "minimal" -> <<"Stop">>
      [] name = "complete" ->
           <<"Stop", "Notification", "PreToolUse", "PostToolUse", "SubagentStop">>
      [] name = "development" -> <<"PreToolUse", "PostToolUse", "Stop">>

\* the system sound every preset maps the event to
PresetSound(event) ==
    CASE event \in {"Stop", "SubagentStop"} -> Tink
      [] event = "Notification" -> Glass
      [] event = "PreToolUse" -> Ping
      [] event = "PostToolUse" -> Pop

\* the file of the system sound the preset maps the event to
PresetFile(event) == getSystemSoundPath(platform, PresetSound(event))

\* the settings file has a managed group under event that plays path
Configured(file, event, path) ==
    \E i \in 1..Len(GroupsOf(file, event)) :
        /\ Marked(GroupsOf(file, event)[i])
        /\ GroupsOf(file, event)[i].hooks[1].command = PlayCommand(platform, path)

\* C16: a preset command with a name outside minimal, complete, development
\* ends with exit code 1, no library call and the settings file as it was.
\* Otherwise the k-th library call is an add for the k-th event of the
\* mapping with its system sound; while the adds succeed the events still to
\* add are the rest of the mapping, in order, and each event added so far is
\* configured in the settings file as soon as its add returned; when the
\* k-th add fails the command ends with exit code 1, nothing more is added,
\* the failed add wrote nothing, and the first k-1 events stay configured.
C16_PresetRun ==
    cli.name = "preset" =>
        IF cli.preset \notin {"minimal", "complete", "development"}
        THEN /\ cli.exit = 1
             /\ last.op = "none"
             /\ pending = <<>>
             /\ settings = cli.before
        ELSE LET ev == PresetEvents(cli.preset)
                 n == Len(ev)
             IN  /\ last.op = "add"
                 /\ \E k \in 1..n :
                        /\ last.event = ev[k]
                        /\ last.file = PresetFile(ev[k])
                        /\ last.matcher = NoMatcher
                        /\ last.exit = 0 =>
                               /\ [i \in 1..Len(pending) |-> pending[i].event]
                                      = SubSeq(ev, k + 1, n)
                               /\ \A i \in 1..Len(pending) :
                                      pending[i].file = PresetFile(pending[i].event)
                               /\ last.outcome \in {"added", "replaced"} => last.writes >= 1
                               /\ Configured(settings, ev[k], PresetFile(ev[k]))
                        /\ last.exit = 1 =>
                               /\ pending = <<>>
                               /\ cli.exit = 1
                               /\ settings = last.before
                        /\ \A j \in 1..(k - 1) :
                               Configured(settings, ev[j], PresetFile(ev[j]))

\* C16: the complete preset failed at its fourth add, for a sound that is
\* not installed, and left the first three events configured.
C16_Witness ==
    /\ cli.name = "preset"
    /\ cli.preset = "complete"
    /\ last.event = "PostToolUse"
    /\ last.outcome = "file-not-found"
    /\ cli.exit = 1
    /\ Configured(settings, "Stop", PresetFile("Stop"))
    /\ Configured(settings, "Notification", PresetFile("Notification"))
    /\ Configured(settings, "PreToolUse", PresetFile("PreToolUse"))
    /\ ~Configured(cli.before, "PreToolUse", PresetFile("PreToolUse"))

----------------------------------------------------------------------------
(* The text of the settings file: JSON.parse (config.ts:37) and            *)
(* JSON.stringify(config, null, 2) (config.ts:69)                          *)
(*                                                                         *)
(* A text is the tree of the tokens as they are spelled: number literals,  *)
(* string literals with their escapes, members in the order written, with  *)
(* repeated keys.  A value is what JSON.parse builds: numbers by value,    *)
(* strings unescaped, the properties of an object in property order.       *)

SyntaxError == [k |-> "SyntaxError"]

\* the Number a literal denotes, named by Number::toString
ToNumber(lit) ==
    CASE lit \in {"1", "1.0", "1e0"} -> "1"
      [] lit = "0" -> "0"
      [] lit = "-0" -> "-0"
      [] lit = "0.5" -> "0.5"
      [] lit = "1e999" -> "Infinity"

\* the string a string literal denotes
Unescape(lit) ==
    CASE lit = "\\u0041" -> "A"
      [] lit = "\\\"" -> "\""
      [] OTHER -> lit

\* QuoteJSONString: the literal JSON.stringify writes for a string
QuoteJSONString(v) == IF v = "\"" THEN "\\\"" ELSE v

\* an integer-like key (an array index) and its number
IsArrayIndex(key) == key \in {"1", "2"}
ArrayIndex(key) == IF key = "1" THEN 1 ELSE 2

\* the position a new property takes: integer-like keys come first, in
\* ascending order, the other keys after them in the order of creation
PropertyPosition(props, key) ==
    IF ~IsArrayIndex(key) THEN Len(props) + 1
    ELSE LET later == {i \in 1..Len(props) :
                          \/ ~IsArrayIndex(props[i].key)
                          \/ ArrayIndex(props[i].key) > ArrayIndex(key)}
         IN  IF later = {} THEN Len(props) + 1
             ELSE CHOOSE i \in later : \A j \in later : i <= j

\* CreateDataProperty: a repeated key takes the later value and keeps its place
CreateDataProperty(props, key, value) ==
    IF \E i \in 1..Len(props) : props[i].key = key
    THEN [i \in 1..Len(props) |->
             IF props[i].key = key THEN [key |-> key, value |-> value] ELSE props[i]]
    ELSE LET at == PropertyPosition(props, key)
         IN  SubSeq(props, 1, at - 1) \o <<[key |-> key, value |-> value]>>
             \o SubSeq(props, at, Len(props))

RECURSIVE DefineProperties(_, _, _, _)
DefineProperties(members, values, i, props) ==
    IF i > Len(members) THEN props
    ELSE DefineProperties(members, values, i + 1,
                          CreateDataProperty(props, Unescape(members[i].key), values[i]))

RECURSIVE JSON_parse(_)
JSON_parse(text) ==
    CASE text.t = "bad" -> SyntaxError
      [] text.t = "word" ->
           IF text.lit = "null" THEN [k |-> "null"]
           ELSE [k |-> "boolean", v |-> text.lit = "true"]
      [] text.t = "number" -> [k |-> "number", v |-> ToNumber(text.lit)]
      [] text.t = "string" -> [k |-> "string", v |-> Unescape(text.lit)]
      [] text.t = "array" ->
           LET items == [i \in 1..Len(text.items) |-> JSON_parse(text.items[i])]
           IN  IF \E i \in 1..Len(items) : items[i] = SyntaxError THEN SyntaxError
               ELSE [k |-> "array", items |-> items]
      [] text.t = "object" ->
           LET values == [i \in 1..Len(text.members) |-> JSON_parse(text.members[i].value)]
           IN  IF \E i \in 1..Len(values) : values[i] = SyntaxError THEN SyntaxError
               ELSE [k |-> "object",
                     props |-> DefineProperties(text.members, values, 1, <<>>)]

\* JSON.stringify: SerializeJSONProperty writes null for a number that is
\* not finite, and Number::toString writes 0 for -0
RECURSIVE JSON_stringify(_)
JSON_stringify(value) ==
    CASE value.k = "null" -> [t |-> "word", lit |-> "null"]
      [] value.k = "boolean" -> [t |-> "word", lit |-> IF value.v THEN "true" ELSE "false"]
      [] value.k = "number" ->
           IF value.v = "Infinity" THEN [t |-> "word", lit |-> "null"]
           ELSE [t |-> "number", lit |-> IF value.v = "-0" THEN "0" ELSE value.v]
      [] value.k = "string" -> [t |-> "string", lit |-> QuoteJSONString(value.v)]
      [] value.k = "array" ->
           [t |-> "array",
            items |-> [i \in 1..Len(value.items) |-> JSON_stringify(value.items[i])]]
      [] value.k = "object" ->
           [t |-> "object",
            members |-> [i \in 1..Len(value.props) |->
                            [key |-> QuoteJSONString(value.props[i].key),
                             value |-> JSON_stringify(value.props[i].value)]]]

\* a settings file as text
TextFile(text, layout) == [state |-> "text", layout |-> layout, text |-> text]

\* the texts the settings file is drawn from
JsonNumber(lit) == [t |-> "number", lit |-> lit]
JsonString(lit) == [t |-> "string", lit |-> lit]
JsonWord(lit) == [t |-> "word", lit |-> lit]
JsonMember(key, value) == [key |-> key, value |-> value]
JsonLeaves ==
    {JsonNumber(l) : l \in {"1", "1.0", "0.5", "0", "1e999"}}
    \cup {JsonString(l) : l \in {"A", "\\u0041", "\\\""}}
    \cup {JsonWord(l) : l \in {"null", "true", "false"}}
    \cup {[t |-> "bad"]}
JsonNested ==
    {[t |-> "array", items |-> <<JsonNumber("1e0"), JsonString("A")>>],
     [t |-> "array", items |-> <<>>],
     [t |-> "object", members |-> <<>>],
     [t |-> "object", members |-> <<JsonMember("a", JsonNumber("1")),
                                     JsonMember("1", JsonWord("null")),
                                     JsonMember("a", JsonString("A"))>>]}
JsonKeys == {"hooks", "a", "\\u0041", "2", "1"}
JsonMembers == {JsonMember(k, v) : k \in JsonKeys, v \in JsonLeaves \cup JsonNested}
JsonTexts ==
    {[t |-> "object", members |-> m] :
        m \in {<<>>} \cup {<<a>> : a \in JsonMembers}
              \cup {<<a, b>> : a \in {JsonMember("a", JsonNumber("1")),
                                      JsonMember("2", JsonString("A"))},
                               b \in JsonMembers}}

\* config.ts:36-37, readSettingsFile on a file that exists: readFile and
\* JSON.parse; config.ts:47-50: a SyntaxError ends the process
RoundTripLoad ==
    /\ procs.pc = "start"
    /\ LET config == JSON_parse(fs[settingsPath].text)
       IN  procs' = IF config = SyntaxError
                    THEN [pc |-> "exit", config |-> NoConfig]
                    ELSE [pc |-> "loaded", config |-> config]
    /\ UNCHANGED <<platform, sounds, settings, pending, cli, last, fs, accessed>>

\* config.ts:57-77, writeSettingsFile(config) with the config just loaded:
\* the settings path gets JSON.stringify(config, null, 2)
RoundTripSave ==
    /\ procs.pc = "loaded"
    /\ fs' = [fs EXCEPT ![settingsPath] =
                 TextFile(JSON_stringify(procs.config), "stringify2")]
    /\ procs' = [procs EXCEPT !.pc = "saved"]
    /\ UNCHANGED <<platform, sounds, settings, pending, cli, last, accessed>>

\* the settings file holds any of the texts; last keeps the file as it was
RoundTripInit ==
    /\ platform = "darwin" /\ sounds = {}
    /\ settings = Absent
    /\ pending = <<>>
    /\ cli = Command("none", <<>>, FALSE, 0, Absent)
    /\ \E text \in JsonTexts, layout \in {"foreign", "stringify2"} :
           /\ fs = [p \in {settingsPath} |-> TextFile(text, layout)]
           /\ last = TextFile(text, layout)
    /\ procs = [pc |-> "start", config |-> NoConfig]
    /\ accessed = {}

RoundTripNext ==
    \/ RoundTripLoad
    \/ RoundTripSave

RoundTripSpec == RoundTripInit /\ [][RoundTripNext]_vars

----------------------------------------------------------------------------
(* Properties of the round trip                                            *)

\* C17: after a load of a settings file that parses and a save of what was
\* loaded, the settings file parses to the structure it parsed to before.
C17_RoundTripKeepsStructure ==
    procs.pc = "saved" => JSON_parse(fs[settingsPath].text) = JSON_parse(last.text)

\* C17: a file written by another tool, with a repeated key and a number
\* spelled 1.0, was loaded and saved: its text changed and its parsed
\* structure did not.
C17_Witness ==
    /\ procs.pc = "saved"
    /\ last.layout = "foreign"
    /\ last.text.members = <<JsonMember("a", JsonNumber("1")), JsonMember("a", JsonNumber("1.0"))>>
    /\ fs[settingsPath].text.members = <<JsonMember("a", JsonNumber("1"))>>
    /\ JSON_parse(fs[settingsPath].text) = JSON_parse(last.text)

----------------------------------------------------------------------------
(* Properties of the paths                                                 *)

\* /h/.claude/settings.json, the settings file of the user
UserSettingsFile ==
    <<"/", "h", "/", ".", "c", "l", "a", "u", "d", "e", "/",
      "s", "e", "t", "t", "i", "n", "g", "s", ".", "j", "s", "o", "n">>

\* /w/.claude/settings.json, the settings file of the project
ProjectSettingsFile ==
    <<"/", "w", "/", ".", "c", "l", "a", "u", "d", "e", "/",
      "s", "e", "t", "t", "i", "n", "g", "s", ".", "j", "s", "o", "n">>

\* the user's settings file and its .tmp and .backup siblings
UserSettingsFiles ==
    {UserSettingsFile,
     UserSettingsFile \o <<".", "t", "m", "p">>,
     UserSettingsFile \o <<".", "b", "a", "c", "k", "u", "p">>}

\* C18: every step of every command reads and writes only the user's
\* settings file and its .tmp and .backup siblings; the settings file of
\* the project stays as it was, absent, malformed or a document, and the
\* document a command loads by reading is the document of the user's
\* settings file.
C18_OnlyUserSettings ==
    [][/\ accessed' \subseteq UserSettingsFiles
       /\ fs'[ProjectSettingsFile] = fs[ProjectSettingsFile]
       /\ \A i \in Invocations :
              (procs[i].pc = "l_read" /\ procs'[i].pc = "mutate")
              => procs'[i].loaded = fs[UserSettingsFile].doc]_vars

\* C18: in a project whose settings file has a managed group, doctor read
\* the user's document and add-sound saved, and the project file is as it was.
C18_Witness ==
    /\ fs[ProjectSettingsFile] = FileOf(DocLocalManaged, "foreign")
    /\ \E i, j \in Invocations :
           /\ procs[i].op.op = "doctor" /\ procs[i].pc = "done"
           /\ procs[i].loaded = DocTidy("darwin")
           /\ procs[j].op.op = "add" /\ procs[j].pc = "done" /\ procs[j].saves = 1
    /\ accessed = UserSettingsFiles

----------------------------------------------------------------------------
(* The audio path of a stored command: the extraction of the duplicate     *)
(* lookup (hooks.ts:70) and the one of list, test and doctor               *)
(* (hooks.ts:145, test.ts:39 and 110, utils.ts:160 and 192)                *)

PathSpaced == <<"/", "h", "/", "m", "y", " ", "a">>   \* /h/my a

\* the paths of the commands add-sound and preset write
StoredPaths ==
    {PathA, PathB, PathGone, PathSpaced}
    \cup {getSystemSoundPath(p, n) : p \in Platforms, n \in SoundNames}

\* the commands createAudioHook writes on each platform, and commands of
\* managed entries edited by hand
StoredCommands ==
    {PlayCommand(p, path) : p \in Platforms, path \in StoredPaths}
    \cup {<<"a", "f", "p", "l", "a", "y", " ", "/", "h", "/", "a">>,
          <<"a", "f", "p", "l", "a", "y", " ", "-", "v", " ", "2", " ", "/", "h", "/", "a">>,
          <<"m", "p", "g", "1", "2", "3", " ", "-", "q", " ", "\"", "/", "h", "/", "a", "\"">>,
          <<"a", "f", "p", "l", "a", "y", " ", " ", "\"", "/", "h", "/", "a", "\"">>,
          <<"a", "f", "p", "l", "a", "y">>}

NotExtracted == [none |-> TRUE]

\* a managed entry with the command, and the paths extracted from it so far
ExtractInit ==
    /\ platform = "darwin" /\ sounds = {}
    /\ settings = Absent
    /\ pending = <<>>
    /\ cli = Command("none", <<>>, FALSE, 0, Absent)
    /\ \E command \in StoredCommands :
           last = [hook |-> [type |-> "command", command |-> command,
                             _ccsound |-> OldMark(TRUE)],
                   hookPath |-> NotExtracted, audioFile |-> NotExtracted]
    /\ fs = <<>> /\ procs = <<>> /\ accessed = {}

\* hooks.ts:68-71, findExistingAudioHook: commandParts and commandParts[2]
FindExtract ==
    /\ last.hookPath = NotExtracted
    /\ last.hook.type = "command" /\ last.hook.command # <<>>
    /\ last' = [last EXCEPT !.hookPath = commandParts(last.hook.command)]
    /\ UNCHANGED <<platform, sounds, settings, pending, cli, fs, procs, accessed>>

\* hooks.ts:144-145, listHooks (and test.ts:39, utils.ts:160): audioFile
ListExtract ==
    /\ last.audioFile = NotExtracted
    /\ last.hook.type = "command" /\ Watermarked(last.hook)
    /\ last' = [last EXCEPT !.audioFile = extractAudioFile(last.hook.command)]
    /\ UNCHANGED <<platform, sounds, settings, pending, cli, fs, procs, accessed>>

ExtractNext ==
    \/ FindExtract
    \/ ListExtract

ExtractSpec == ExtractInit /\ [][ExtractNext]_vars

----------------------------------------------------------------------------
(* Properties of the extraction                                            *)

\* C19: for the command of a managed entry, the duplicate lookup of add
\* extracts a path exactly when list, test and doctor extract one, and it is
\* the same path.
C19_SameExtraction ==
    (last.hookPath # NotExtracted /\ last.audioFile # NotExtracted)
    => last.hookPath = last.audioFile

\* C19: both extractions were applied to afplay "/h/my a" and both gave
\* /h/my a.
C19_Witness ==
    /\ last.hook.command = PlayCommand("darwin", PathSpaced)
    /\ last.hookPath = [ok |-> TRUE, path |-> PathSpaced]
    /\ last.audioFile = [ok |-> TRUE, path |-> PathSpaced]

----------------------------------------------------------------------------
(* The three ownership predicates, applied to one hook group               *)

\* utils.ts:147-149, the isccsoundManaged of runDiagnostics:
\* hookGroup.hooks && hookGroup.hooks.some(...), by truthiness
doctorIsManaged(hookGroup) ==
    /\ "hooks" \in DOMAIN hookGroup
    /\ \E i \in 1..Len(hookGroup.hooks) : Watermarked(hookGroup.hooks[i])

\* how a call of a predicate ends
Returned(value) == [returned |-> value]
TypeError == [threw |-> "TypeError"]
NotCalled == [none |-> TRUE]

\* hooks.ts:58-60 called on any group read from the settings file:
\* hookGroup.hooks.some throws when the group has no hooks list
registryIsManaged(hookGroup) ==
    IF "hooks" \notin DOMAIN hookGroup THEN TypeError
    ELSE Returned(isccsoundManaged(hookGroup))

\* the hook groups a settings file can hold under an event
HookGroups ==
    {GForeign, GTestHook, [hooks |-> <<>>], [matchers |-> <<"Bash">>], EmptyObject}
    \cup UNION {{GForeignPlays(p, path), GDisowned(p, path), GManaged(p, path),
                 GManagedMatcher(p, path), GMixed(p, path)} :
                    p \in {"darwin", "win32"}, path \in {PathA, PathB}}

OwnershipInit ==
    /\ platform = "darwin" /\ sounds = {}
    /\ settings = Absent
    /\ pending = <<>>
    /\ cli = Command("none", <<>>, FALSE, 0, Absent)
    /\ \E hookGroup \in HookGroups :
           last = [hookGroup |-> hookGroup, registry |-> NotCalled,
                   test |-> NotCalled, doctor |-> NotCalled]
    /\ fs = <<>> /\ procs = <<>> /\ accessed = {}

\* hooks.ts:58-60
RegistryCheck ==
    /\ last.registry = NotCalled
    /\ last' = [last EXCEPT !.registry = registryIsManaged(last.hookGroup)]
    /\ UNCHANGED <<platform, sounds, settings, pending, cli, fs, procs, accessed>>

\* test.ts:10-12
TestCheck ==
    /\ last.test = NotCalled
    /\ last' = [last EXCEPT !.test = Returned(testIsManaged(last.hookGroup))]
    /\ UNCHANGED <<platform, sounds, settings, pending, cli, fs, procs, accessed>>

\* utils.ts:147-149
DoctorCheck ==
    /\ last.doctor = NotCalled
    /\ last' = [last EXCEPT !.doctor = Returned(doctorIsManaged(last.hookGroup))]
    /\ UNCHANGED <<platform, sounds, settings, pending, cli, fs, procs, accessed>>

OwnershipNext ==
    \/ RegistryCheck
    \/ TestCheck
    \/ DoctorCheck

OwnershipSpec == OwnershipInit /\ [][OwnershipNext]_vars

----------------------------------------------------------------------------
(* Properties of the ownership predicates                                  *)

\* some entry of the group has a watermark with managed = true
SomeEntryManaged(g) ==
    /\ "hooks" \in DOMAIN g
    /\ \E i \in 1..Len(g.hooks) :
           "_ccsound" \in DOMAIN g.hooks[i] /\ g.hooks[i]._ccsound.managed = TRUE

\* C20: on every hook group, a group with an empty or a missing hooks list
\* included, the predicate of the registry, the one of the test module and
\* the one of doctor each return true when some entry of the group has a
\* watermark with managed = true and false when none has.
C20_OwnershipAgrees ==
    /\ last.registry # NotCalled => last.registry = Returned(SomeEntryManaged(last.hookGroup))
    /\ last.test # NotCalled => last.test = Returned(SomeEntryManaged(last.hookGroup))
    /\ last.doctor # NotCalled => last.doctor = Returned(SomeEntryManaged(last.hookGroup))

\* C20: the three predicates were applied to a group with a watermarked
\* entry next to an entry of another tool, and to nothing else, and agree.
C20_Witness ==
    /\ last.hookGroup = GMixed("darwin", PathA)
    /\ last.registry = Returned(TRUE)
    /\ last.test = Returned(TRUE)
    /\ last.doctor = Returned(TRUE)

----------------------------------------------------------------------------
(* The test command, hook by hook (test.ts and cli.ts:402-419)             *)

\* a faulty loop body: a player that fails ends the scan of the event
testHook_abort(p, snd, hook, dryRun, delay, all, execOk) ==
    LET audioFile == extractAudioFile(hook.command)
        none == [result |-> "none", success |-> 0, failure |-> 0, execs |-> 0,
                 delays |-> 0, goesOn |-> TRUE]
    IN  IF ~(hook.type = "command" /\ hook.command # <<>>) THEN none
        ELSE IF ~audioFile.ok THEN none
        ELSE IF ~validateAudioFile(p, snd, audioFile.path)
        THEN [none EXCEPT !.result = "file-not-found", !.failure = 1]
        ELSE IF dryRun
        THEN [none EXCEPT !.result = "skip", !.success = 1]
        ELSE IF execOk
        THEN [none EXCEPT !.result = "pass", !.success = 1, !.execs = 1,
                          !.delays = IF all /\ delay = "1000" THEN 1 ELSE 0]
        ELSE [none EXCEPT !.result = "playback-failed", !.execs = 1, !.goesOn = FALSE]

\* test.ts:37-72 and 108-150, the body of the loop over the hooks of a
\* managed group: what one hook adds to the counters, whether the player
\* was run (execSync) and whether the delay was waited.  execOk: execSync
\* returns (TRUE) or throws (FALSE).  The delay is waited in testAllEvents
\* only, when parseInt(options.delay, 10) > 0.
testHook(p, snd, hook, dryRun, delay, all, execOk) ==
    LET audioFile == extractAudioFile(hook.command)
        none == [result |-> "none", success |-> 0, failure |-> 0, execs |-> 0,
                 delays |-> 0, goesOn |-> TRUE]
    IN  IF ~(hook.type = "command" /\ hook.command # <<>>) THEN none
        ELSE IF ~audioFile.ok THEN none
        ELSE IF ~validateAudioFile(p, snd, audioFile.path)
        THEN [none EXCEPT !.result = "file-not-found", !.failure = 1]
        ELSE IF dryRun
        THEN [none EXCEPT !.result = "skip", !.success = 1]
        ELSE [none EXCEPT !.result = IF execOk THEN "pass" ELSE "playback-failed",
                          !.success = IF execOk THEN 1 ELSE 0,
                          !.failure = IF execOk THEN 0 ELSE 1,
                          !.execs = 1,
                          !.delays = IF all /\ delay = "1000" THEN 1 ELSE 0]

\* a settings document for the test command: managed groups whose file
\* exists or not, a managed group with a second entry of another tool,
\* groups of other tools
DocTest(p) ==
    [hooks |-> [Stop |-> <<GManaged(p, PathA), GForeignPlays(p, PathB), GMixed(p, PathGone)>>,
                Notification |-> <<GManaged(p, PathGone)>>,
                PreToolUse |-> <<GDisowned(p, PathA)>>,
                SubagentStop |-> <<GManagedMatcher(p, PathB)>>]]

\* test [event] [--all] [--dry-run] [--delay ms]
ScanArgs ==
    {[all |-> FALSE, event |-> e, dryRun |-> d, delay |-> "1000"] :
         e \in {"Stop", "Notification", "PreToolUse", ForeignEvent}, d \in BOOLEAN}
    \cup {[all |-> TRUE, event |-> "", dryRun |-> d, delay |-> ms] :
              d \in BOOLEAN, ms \in {"1000", "0"}}

NoTest ==
    [pc |-> "idle", all |-> FALSE, event |-> "", dryRun |-> FALSE, delay |-> "",
     config |-> NoConfig, events |-> <<>>, e |-> 0, queue |-> <<>>,
     success |-> 0, failure |-> 0, testedEvents |-> 0, execs |-> 0, delays |-> 0,
     log |-> <<>>, summary |-> FALSE, exit |-> 0, before |-> Absent]

TestInit ==
    /\ \E m \in {[platform |-> "darwin", sounds |-> {}], [platform |-> "win32", sounds |-> {}]} :
           platform = m.platform /\ sounds = m.sounds
    /\ settings \in {Absent, Malformed, FileOf(DocNoHooks, "foreign"),
                     FileOf(DocTest(platform), "foreign"),
                     FileOf(DocTidy(platform), "foreign")}
    /\ pending = <<>>
    /\ cli = Command("none", <<>>, FALSE, 0, settings)
    /\ last = NoCall(settings)
    /\ fs = <<>> /\ accessed = {}
    /\ procs = [NoTest EXCEPT !.before = settings]

TestFrame == UNCHANGED <<platform, sounds, pending, cli, last, fs, accessed>>

\* cli.ts:410-419 and test.ts:15-23 or 84-91: the command starts, checks
\* the event of testSpecificEvent and loads the settings
TestBegin ==
    \E a \in ScanArgs :
        /\ procs.pc = "idle"
        /\ LET p == [procs EXCEPT !.all = a.all, !.event = a.event,
                                  !.dryRun = a.dryRun, !.delay = a.delay]
               rd == readSettingsFile(settings)
           IN  IF ~a.all /\ a.event \notin Recognized
               THEN procs' = [p EXCEPT !.pc = "ended", !.exit = 1] /\ settings' = settings
               ELSE /\ settings' = rd.disk
                    /\ procs' = IF rd.status = "exit"
                                THEN [p EXCEPT !.pc = "ended", !.exit = 1]
                                ELSE [p EXCEPT !.pc = "event", !.config = rd.config,
                                               !.events = IF a.all THEN VALID_EVENTS
                                                          ELSE <<a.event>>,
                                               !.e = 1]
        /\ TestFrame

\* test.ts:23-31 or 93-105: the managed groups of the next event
TestEvent ==
    /\ procs.pc = "event"
    /\ procs.e <= Len(procs.events)
    /\ LET event == procs.events[procs.e]
           ccsoundHooks == testFilter(getEventHooks(procs.config, event))
           hooks == hooksOf(ccsoundHooks)
       IN  procs' =
               IF Len(ccsoundHooks) = 0
               THEN IF procs.all THEN [procs EXCEPT !.e = @ + 1]
                    ELSE [procs EXCEPT !.pc = "ended"]
               ELSE [procs EXCEPT !.pc = "hooks",
                                  !.testedEvents = @ + 1,
                                  !.queue = [i \in 1..Len(hooks) |->
                                                [event |-> event, hook |-> hooks[i]]]]
    /\ UNCHANGED settings
    /\ TestFrame

\* test.ts:37-72 or 108-150: one hook of a managed group
TestHook ==
    \E execOk \in BOOLEAN :
        /\ procs.pc = "hooks"
        /\ procs.queue # <<>>
        /\ LET entry == Head(procs.queue)
               r == testHook(platform, sounds, entry.hook, procs.dryRun, procs.delay,
                             procs.all, execOk)
           IN  /\ execOk \/ r.execs = 1
               /\ procs' = [procs EXCEPT
                               !.queue = IF r.goesOn THEN Tail(@) ELSE <<>>,
                               !.success = @ + r.success,
                               !.failure = @ + r.failure,
                               !.execs = @ + r.execs,
                               !.delays = @ + r.delays,
                               !.log = IF r.result = "none" THEN @
                                       ELSE Append(@, [event |-> entry.event,
                                                       hook |-> entry.hook,
                                                       result |-> r.result])]
        /\ UNCHANGED settings
        /\ TestFrame

\* the hooks of the event are done: the next event
TestEventDone ==
    /\ procs.pc = "hooks"
    /\ procs.queue = <<>>
    /\ procs' = [procs EXCEPT !.pc = "event", !.e = @ + 1]
    /\ UNCHANGED settings
    /\ TestFrame

\* test.ts:76-80 or 157-172: the results, and the return to cli.ts, which
\* ends the process with the exit code 0
TestResults ==
    /\ procs.pc = "event"
    /\ procs.e > Len(procs.events)
    /\ procs' = [procs EXCEPT !.pc = "ended",
                              !.summary = ~procs.all \/ procs.testedEvents > 0,
                              !.exit = 0]
    /\ UNCHANGED settings
    /\ TestFrame

TestNext ==
    \/ TestBegin
    \/ TestEvent
    \/ TestHook
    \/ TestEventDone
    \/ TestResults

TestSpec == TestInit /\ [][TestNext]_vars

----------------------------------------------------------------------------
(* Properties of the test command                                          *)

\* the test command ran to its end on a settings file it could load
TestEnded == procs.pc = "ended" /\ procs.config # NoConfig

\* the events a run of the test command tests
TestedEvents ==
    IF procs.all
    THEN <<"Stop", "Notification", "PreToolUse", "PostToolUse", "SubagentStop">>
    ELSE <<procs.event>>

\* the command entries with an extractable path of a sequence of hooks
RECURSIVE CommandEntries(_, _)
CommandEntries(event, hooks) ==
    IF hooks = <<>> THEN <<>>
    ELSE (IF Head(hooks).type = "command" /\ extractAudioFile(Head(hooks).command).ok
          THEN <<[event |-> event, hook |-> Head(hooks)]>> ELSE <<>>)
         \o CommandEntries(event, Tail(hooks))

\* the command entries of the managed groups of a sequence of groups
RECURSIVE GroupEntries(_, _)
GroupEntries(event, groups) ==
    IF groups = <<>> THEN <<>>
    ELSE (IF Marked(Head(groups)) THEN CommandEntries(event, Head(groups).hooks) ELSE <<>>)
         \o GroupEntries(event, Tail(groups))

\* the command entries of the managed groups of the events from the i-th on
RECURSIVE EntriesFrom(_, _, _)
EntriesFrom(file, events, i) ==
    IF i > Len(events) THEN <<>>
    ELSE GroupEntries(events[i], GroupsOf(file, events[i])) \o EntriesFrom(file, events, i + 1)

\* the entries the run has to count
ToCount == EntriesFrom(settings, TestedEvents, 1)

Passed(entry) == entry.result \in {"pass", "skip"}
Failed(entry) == entry.result \in {"file-not-found", "playback-failed"}

\* C21: a test --all that ran to its end has a non-zero exit code when at
\* least one hook failed, for a missing file or a failed playback, and the
\* exit code zero when every tested hook passed.
C21_BatchExitCode ==
    (TestEnded /\ procs.all)
    => ((\E i \in 1..Len(procs.log) : Failed(procs.log[i])) <=> procs.exit # 0)

\* C21: a test --all ended after a hook whose file is missing, a hook whose
\* playback failed and a hook that passed.
C21_Witness ==
    /\ TestEnded /\ procs.all /\ procs.summary
    /\ \E i, j, k \in 1..Len(procs.log) :
           /\ procs.log[i].result = "file-not-found"
           /\ procs.log[j].result = "playback-failed"
           /\ procs.log[k].result = "pass"

\* C22: a test of one event or of all events that ran to its end has
\* counted every command entry with an extractable path of every managed
\* group of the tested events exactly once, in order, each as a success or
\* as a failure, a missing file and a failed player as a failure each, and
\* has printed its results when the tested events have a managed group.
C22_EveryEntryCountedOnce ==
    TestEnded =>
        /\ [i \in 1..Len(procs.log) |-> [event |-> procs.log[i].event,
                                          hook |-> procs.log[i].hook]] = ToCount
        /\ \A i \in 1..Len(procs.log) : Passed(procs.log[i]) \/ Failed(procs.log[i])
        /\ procs.success = Len(SelectSeq(procs.log, Passed))
        /\ procs.failure = Len(SelectSeq(procs.log, Failed))
        /\ procs.success + procs.failure = Len(ToCount)
        /\ (\E i \in 1..Len(TestedEvents) : ManagedCount(settings, TestedEvents[i]) > 0)
           => procs.summary

\* C22: a test ended with its results after a failed playback and a missing
\* file that were followed by other entries.
C22_Witness ==
    /\ TestEnded /\ procs.summary
    /\ \E i, j \in 1..Len(procs.log) :
           /\ i < j /\ j < Len(procs.log)
           /\ procs.log[i].result = "playback-failed"
           /\ procs.log[j].result = "file-not-found"
    /\ procs.failure >= 2

\* C23: a test in dry-run mode never runs the player and never waits the
\* delay, at its end has counted every entry of a managed group whose audio
\* file exists as a success, and leaves the settings file as it was.
C23_DryRunTouchesNothing ==
    procs.dryRun =>
        /\ procs.execs = 0
        /\ procs.delays = 0
        /\ settings = procs.before
        /\ TestEnded =>
               \A i \in 1..Len(ToCount) :
                   (\E path \in UserFiles :
                        ToCount[i].hook.command = PlayCommand(platform, path))
                   => \E j \in 1..Len(procs.log) :
                          /\ procs.log[j].hook = ToCount[i].hook
                          /\ procs.log[j].event = ToCount[i].event
                          /\ procs.log[j].result = "skip"

\* C23: a dry run over all events ended with successes counted and a missing
\* file counted as a failure, without a player run.
C23_Witness ==
    /\ TestEnded /\ procs.dryRun /\ procs.all
    /\ procs.success >= 2
    /\ procs.failure >= 1
    /\ procs.execs = 0
    /\ settings = procs.before

----------------------------------------------------------------------------
(* The list command (hooks.ts:130-164, cli.ts:395-400)                     *)

\* hooks.ts:143-148, the loop over the hooks of a managed group: a line for
\* every hook with type command and a watermark
RECURSIVE listLines(_, _)
listLines(event, hooks) ==
    IF hooks = <<>> THEN <<>>
    ELSE (IF Head(hooks).type = "command" /\ "_ccsound" \in DOMAIN Head(hooks)
          THEN <<[event |-> event,
                  audioFile |-> extractAudioFile(Head(hooks).command),
                  version |-> Head(hooks)._ccsound.version]>>
          ELSE <<>>)
         \o listLines(event, Tail(hooks))

\* hooks.ts:140-153, the loop over the groups of an event from the i-th on
RECURSIVE listGroups(_, _, _, _)
listGroups(event, eventHooks, i, acc) ==
    IF i > Len(eventHooks) \/ acc.outcome # "ok" THEN acc
    ELSE LET managed == registryIsManaged(eventHooks[i]) IN
         listGroups(event, eventHooks, i + 1,
             IF managed = TypeError THEN [acc EXCEPT !.outcome = "TypeError"]
             ELSE IF managed.returned
             THEN [acc EXCEPT !.ccsoundCount = @ + 1,
                              !.lines = @ \o listLines(event, eventHooks[i].hooks)]
             ELSE [acc EXCEPT !.otherCount = @ + 1])

\* hooks.ts:137-154, the loop over VALID_EVENTS from the i-th on
RECURSIVE listEvents(_, _, _)
listEvents(config, i, acc) ==
    IF i > Len(VALID_EVENTS) THEN acc
    ELSE listEvents(config, i + 1,
                    listGroups(VALID_EVENTS[i], getEventHooks(config, VALID_EVENTS[i]), 1, acc))

\* hooks.ts listHooks: the lines printed, the two counts, the exit code and
\* the settings file when the call ends
listHooks(file) ==
    LET rd == readSettingsFile(file)
        r == listEvents(rd.config, 1,
                        [outcome |-> "ok", lines |-> <<>>, ccsoundCount |-> 0, otherCount |-> 0])
    IN  IF rd.status = "exit"
        THEN [outcome |-> "parse-error", exit |-> 1, disk |-> rd.disk, lines |-> <<>>,
              ccsoundCount |-> 0, otherCount |-> 0]
        ELSE [outcome |-> r.outcome, exit |-> IF r.outcome = "ok" THEN 0 ELSE 1,
              disk |-> rd.disk, lines |-> r.lines,
              ccsoundCount |-> r.ccsoundCount, otherCount |-> r.otherCount]

\* a managed group with two entries of the tool
GTwoSounds(p) ==
    [hooks |-> << [type |-> "command", command |-> PlayCommand(p, PathA),
                   _ccsound |-> OldMark(TRUE)],
                  [type |-> "command", command |-> PlayCommand(p, PathB),
                   _ccsound |-> OldMark(TRUE)] >>]

\* the groups and the documents list and doctor are run on
ListedGroups(p) ==
    {GManaged(p, PathA), GMixed(p, PathB), GTwoSounds(p), GForeign, GDisowned(p, PathA),
     [hooks |-> <<>>]}
ListedDocs(p) ==
    {[model |-> "opus",
      hooks |-> [Stop |-> <<a, b>>, Notification |-> <<c>>,
                 UserPromptSubmit |-> <<GManaged(p, PathA)>>]] :
         a \in ListedGroups(p), b \in ListedGroups(p), c \in {GManaged(p, PathGone), GForeign}}
    \cup {DocNoHooks, DocTidy(p), DocCrowded(p)}

ListInit ==
    /\ platform = "darwin" /\ sounds = {}
    /\ settings \in {Absent, Malformed} \cup {FileOf(doc, "foreign") : doc \in ListedDocs(platform)}
    /\ pending = <<>>
    /\ cli = Command("none", <<>>, FALSE, 0, settings)
    /\ last = NoCall(settings)
    /\ fs = <<>> /\ procs = <<>> /\ accessed = {}

\* cli.ts:395-400, list
ListCmd ==
    /\ LET r == listHooks(settings) IN
           /\ settings' = r.disk
           /\ last' = [op |-> "list", outcome |-> r.outcome, exit |-> r.exit,
                       lines |-> r.lines, ccsoundCount |-> r.ccsoundCount,
                       otherCount |-> r.otherCount, before |-> settings]
           /\ cli' = Command("list", <<>>, FALSE, r.exit, settings)
    /\ UNCHANGED <<platform, sounds, pending, fs, procs, accessed>>

ListSpec == ListInit /\ [][ListCmd]_vars

----------------------------------------------------------------------------
(* Properties of the list command                                          *)

\* the command entries of a sequence of hooks, whatever their command
RECURSIVE AllCommandEntries(_, _)
AllCommandEntries(event, hooks) ==
    IF hooks = <<>> THEN <<>>
    ELSE (IF Head(hooks).type = "command"
          THEN <<[event |-> event, hook |-> Head(hooks)]>> ELSE <<>>)
         \o AllCommandEntries(event, Tail(hooks))

RECURSIVE ManagedEntries(_, _)
ManagedEntries(event, groups) ==
    IF groups = <<>> THEN <<>>
    ELSE (IF Marked(Head(groups)) THEN AllCommandEntries(event, Head(groups).hooks) ELSE <<>>)
         \o ManagedEntries(event, Tail(groups))

\* the command entries of the managed groups of the five events of a file
ToList(file) ==
    ManagedEntries("Stop", GroupsOf(file, "Stop"))
    \o ManagedEntries("Notification", GroupsOf(file, "Notification"))
    \o ManagedEntries("PreToolUse", GroupsOf(file, "PreToolUse"))
    \o ManagedEntries("PostToolUse", GroupsOf(file, "PostToolUse"))
    \o ManagedEntries("SubagentStop", GroupsOf(file, "SubagentStop"))

\* the number of groups under the five events of a file
GroupTotal(file) ==
    Len(GroupsOf(file, "Stop")) + Len(GroupsOf(file, "Notification"))
    + Len(GroupsOf(file, "PreToolUse")) + Len(GroupsOf(file, "PostToolUse"))
    + Len(GroupsOf(file, "SubagentStop"))

\* C24: a list on a settings file that is not malformed leaves the file as
\* it was, prints one line for every command entry of every managed group of
\* the five events, in order, with the event of the entry, and its managed
\* and non-managed counts add up to the number of groups under the five
\* events.
C24_ListEveryEntry ==
    (last.op = "list" /\ last.before # Malformed) =>
        /\ settings = last.before
        /\ Len(last.lines) = Len(ToList(last.before))
        /\ \A i \in 1..Len(last.lines) : last.lines[i].event = ToList(last.before)[i].event
        /\ last.ccsoundCount + last.otherCount = GroupTotal(last.before)

\* C24: a list of a document with a managed group of two entries, a group of
\* another tool under Stop and a managed group under Notification printed
\* three lines and counted two managed groups and one other.
C24_Witness ==
    /\ last.op = "list"
    /\ GroupsOf(last.before, "Stop") = <<GTwoSounds("darwin"), GForeign>>
    /\ ManagedCount(last.before, "Notification") = 1
    /\ Len(last.lines) = 3
    /\ last.lines[2] = [event |-> "Stop", audioFile |-> [ok |-> TRUE, path |-> PathB],
                        version |-> "1.0.0"]
    /\ last.ccsoundCount = 2 /\ last.otherCount = 1
    /\ settings = last.before

----------------------------------------------------------------------------
(* One command of the registry on a settings file with groups of the tool  *)
(* and of other tools under one event                                      *)

\* the groups under the event: a group of another tool that plays /h/a next
\* to nothing, to a managed group with an entry of another tool in it, or to
\* a managed group with a matcher
RegistryGroups(p) ==
    {<<GForeignPlays(p, PathA)>>,
     <<GDisowned(p, PathA), GForeign>>,
     <<GForeignPlays(p, PathA), GMixed(p, PathB), GForeign>>,
     <<GManagedMatcher(p, PathB), GForeignPlays(p, PathA)>>,
     <<GMixed(p, PathA), GManaged(p, PathB)>>}

RegistryDocs(p) ==
    {[model |-> "opus", hooks |-> (event :> groups)] :
        event \in Recognized, groups \in RegistryGroups(p)}
    \cup {DocCrowded(p)}

RegistryInit ==
    /\ platform = "darwin" /\ sounds = {}
    /\ settings \in {Absent} \cup {FileOf(doc, "foreign") : doc \in RegistryDocs(platform)}
    /\ pending = <<>>
    /\ cli = Command("none", <<>>, FALSE, 0, settings)
    /\ last = NoCall(settings)
    /\ fs = <<>> /\ procs = <<>> /\ accessed = {}

\* cli.ts:368-393, add-sound --event <event> --file <path> [--matcher <pattern>]
RegistryAdd ==
    \E event \in Recognized, file \in {PathA, PathB}, matcher \in {NoMatcher, "Bash"},
       stamp \in Stamps :
        /\ cli.name = "none"
        /\ RunAdd([event |-> event, file |-> file, matcher |-> matcher], <<>>,
                  Command("add-sound", <<event>>, FALSE, 0, settings), stamp)

\* cli.ts:421-430, remove <event>
RegistryRemove ==
    \E event \in Recognized :
        /\ cli.name = "none"
        /\ LET r == removeHooks(settings, event) IN
               /\ settings' = r.disk
               /\ last' = Call("remove", [NoArgs EXCEPT !.event = event], r, settings)
               /\ cli' = Command("remove", <<event>>, FALSE, r.exit, settings)
        /\ UNCHANGED <<platform, sounds, pending, fs, procs, accessed>>

\* cli.ts:432-437, clear
RegistryClear ==
    /\ cli.name = "none"
    /\ ClearCmd

RegistryNext ==
    \/ RegistryAdd
    \/ RegistryRemove
    \/ RegistryClear

RegistrySpec == RegistryInit /\ [][RegistryNext]_vars

----------------------------------------------------------------------------
(* Properties of the registry on groups of other tools, matchers and       *)
(* groups with entries of both kinds                                       *)

\* some entry of the group has the command <player> "<path>"
Plays(g, path) ==
    \E i \in 1..Len(g.hooks) : g.hooks[i].command = PlayCommand(platform, path)

\* the only groups under event that play path are unmanaged
OnlyUnmanagedPlay(file, event, path) ==
    /\ \E i \in 1..Len(GroupsOf(file, event)) :
           Unmarked(GroupsOf(file, event)[i]) /\ Plays(GroupsOf(file, event)[i], path)
    /\ \A i \in 1..Len(GroupsOf(file, event)) :
           Marked(GroupsOf(file, event)[i]) => ~Plays(GroupsOf(file, event)[i], path)

\* C25: when the only groups of the event that play the path are unmanaged,
\* an add for the event and the path does not report 'already exists': it
\* writes the unmanaged groups of the event as they were, in place, followed
\* by one new managed group that plays the path.
C25_UnmanagedIsNoDuplicate ==
    (/\ last.op = "add"
     /\ last.event \in FiveKinds
     /\ Resolved(last.file) \in UserFiles
     /\ OnlyUnmanagedPlay(last.before, last.event, Resolved(last.file)))
    => (/\ last.outcome \in {"added", "replaced"}
        /\ LET groups == GroupsOf(settings, last.event)
               n == Len(groups)
           IN  /\ n = Len(UnmanagedGroups(last.before, last.event)) + 1
               /\ SubSeq(groups, 1, n - 1) = UnmanagedGroups(last.before, last.event)
               /\ Marked(groups[n])
               /\ Plays(groups[n], Resolved(last.file)))

\* C25: an add for /h/a on an event whose only group is a group of another
\* tool that plays /h/a.
C25_Witness ==
    /\ last.op = "add"
    /\ last.file = PathA
    /\ GroupsOf(last.before, last.event) = <<GForeignPlays(platform, PathA)>>
    /\ last.outcome = "added"
    /\ Len(GroupsOf(settings, last.event)) = 2
    /\ GroupsOf(settings, last.event)[1] = GForeignPlays(platform, PathA)

\* C26: the group an add creates has a matcher exactly when a matcher was
\* given and the event is PreToolUse or PostToolUse, and then it is the
\* matcher given; for Stop, Notification and SubagentStop the group has no
\* matcher field.
C26_MatcherOnToolEventsOnly ==
    (last.op = "add" /\ last.outcome \in {"added", "replaced"})
    => LET groups == GroupsOf(settings, last.event)
           g == groups[Len(groups)]
       IN  /\ ("matchers" \in DOMAIN g)
                  <=> (last.matcher # NoMatcher /\ last.event \in {"PreToolUse", "PostToolUse"})
           /\ "matchers" \in DOMAIN g => g.matchers = <<last.matcher>>
           /\ "matcher" \notin DOMAIN g

\* C26: an add with the matcher Bash created a group without a matcher for
\* Notification.
C26_Witness ==
    /\ last.op = "add"
    /\ last.event = "Notification"
    /\ last.matcher = "Bash"
    /\ last.outcome \in {"added", "replaced"}
    /\ DOMAIN GroupsOf(settings, "Notification")[Len(GroupsOf(settings, "Notification"))]
           = {"hooks"}

\* a group with a watermarked entry and an entry without a watermark
IsMixed(g) ==
    /\ Marked(g)
    /\ \E i \in 1..Len(g.hooks) : "_ccsound" \notin DOMAIN g.hooks[i]

\* the number of entries without a watermark in a sequence of groups
RECURSIVE Unwatermarked(_)
Unwatermarked(groups) ==
    IF groups = <<>> THEN 0
    ELSE Cardinality({i \in 1..Len(Head(groups).hooks) :
                         "_ccsound" \notin DOMAIN Head(groups).hooks[i]})
         + Unwatermarked(Tail(groups))

\* C29: a remove, a confirmed clear or an add that writes deletes every
\* group of the events it works on that holds a watermarked entry, the
\* entries without a watermark of such a group included: only the entries
\* of the unmanaged groups are left.
C29_MixedGroupDeletedWhole ==
    Mutated =>
        \A e \in Targets :
            /\ \A i \in 1..Len(GroupsOf(settings, e)) :
                   GroupsOf(settings, e)[i] \notin
                       {g \in Range(GroupsOf(last.before, e)) : IsMixed(g)}
            /\ Unwatermarked(GroupsOf(settings, e))
                   = Unwatermarked(GroupsOf(last.before, e))
                     - Unwatermarked(SelectSeq(GroupsOf(last.before, e), IsMixed))

\* C29: a remove deleted a managed group that held an entry of another tool,
\* next to two groups of other tools.
C29_Witness ==
    /\ last.op = "remove"
    /\ last.outcome = "removed"
    /\ GroupsOf(last.before, last.event)
           = <<GForeignPlays(platform, PathA), GMixed(platform, PathB), GForeign>>
    /\ GroupsOf(settings, last.event) = <<GForeignPlays(platform, PathA), GForeign>>

\* ---------------------------------------------------------------------
\* The interactive sound selector, cli.ts:154-311 (useCustomSoundSelector),
\* handler by handler.  Node runs one handler at a time; between two
\* handlers any key press, timer or child event that is due can come
\* first.  The selector state is held in procs.

\* the previews one run of the selector can start
PreviewIds == {"preview1", "preview2", "preview3"}

NoPreview == "null"

\* cli.ts:126-133: the first choice is 'Custom audio file' with no file,
\* the others are system sounds with a file.  Indices as in the source,
\* from 0.
soundChoices ==
    << [value |-> "custom", file |-> "null"],
       [value |-> "system:Glass", file |-> "/System/Library/Sounds/Glass.aiff"],
       [value |-> "system:Ping", file |-> "/System/Library/Sounds/Ping.aiff"] >>

ChoiceFile(index) == soundChoices[index + 1].file

\* a preview is "unborn" before spawn, "running" while it plays,
\* "signalled" once SIGTERM was sent to it and it still runs, "exited"
\* when the process is gone and its 'exit' event is queued, "closed"
\* when the 'exit' handler has run
Unsignalled(s) == {c \in PreviewIds : s.children[c] = "running"}

\* cli.ts:179-188.  The tracked process never has killed = true: the
\* variable is set to null in the same step as kill().  A SIGTERM to a
\* process that is gone changes nothing.
stopCurrentAudio(s) ==
    LET c == s.audioProcess IN
    [s EXCEPT !.children = IF c # NoPreview /\ s.children[c] = "running"
                              THEN [s.children EXCEPT ![c] = "signalled"]
                              ELSE s.children,
              !.audioProcess = NoPreview,
              !.audioTimeout = FALSE]

\* cli.ts:190-227, with the player starting; c is the process spawn()
\* returns
playCurrentSound(s, c) ==
    LET t == stopCurrentAudio(s) IN
    IF ChoiceFile(t.currentIndex) # "null"
        THEN [t EXCEPT !.children = [t.children EXCEPT ![c] = "running"],
                       !.audioProcess = c,
                       !.audioTimeout = TRUE]
        ELSE t

\* cli.ts:211-217, the 'exit' handler every preview gets: it assigns the
\* variables of the selector, whichever preview they hold by then
onExit(s, c) ==
    [s EXCEPT !.children = [s.children EXCEPT ![c] = "closed"],
              !.audioProcess = NoPreview,
              !.audioTimeout = FALSE]

\* cli.ts:266-276; the terminal mode has no part in the previews
cleanup(s) == stopCurrentAudio(s)

SelectorStart ==
    [pc |-> "selecting", currentIndex |-> 0, audioProcess |-> NoPreview,
     audioTimeout |-> FALSE, debounceTimeout |-> FALSE,
     children |-> [c \in PreviewIds |-> "unborn"],
     signalled |-> {}, left |-> {}]

\* cli.ts:160-162, 242-309: the first choice has no file, so the timer of
\* lines 307-309 is not set
SelectorInit ==
    /\ platform = "darwin" /\ sounds = {}
    /\ settings = Absent
    /\ pending = <<>>
    /\ cli = Command("none", <<>>, FALSE, 0, settings)
    /\ last = NoCall(settings)
    /\ fs = <<>> /\ accessed = {}
    /\ procs = SelectorStart

SelectorFrame == UNCHANGED <<platform, sounds, settings, pending, cli, last, fs, accessed>>

\* cli.ts:229-239 and the shared end of 282-295: a changed index is
\* rendered and sets the debounce timer anew
moveTo(s, index) ==
    IF index # s.currentIndex
        THEN [s EXCEPT !.currentIndex = index, !.debounceTimeout = TRUE]
        ELSE s

Max(a, b) == IF a > b THEN a ELSE b

Min(a, b) == IF a < b THEN a ELSE b

\* cli.ts:282-288: up arrow, k or w
KeyUp ==
    /\ procs.pc = "selecting"
    /\ procs' = moveTo(procs, Max(0, procs.currentIndex - 1))
    /\ SelectorFrame

\* cli.ts:289-295: down arrow, j or s
KeyDown ==
    /\ procs.pc = "selecting"
    /\ procs' = moveTo(procs, Min(Len(soundChoices) - 1, procs.currentIndex + 1))
    /\ SelectorFrame

\* the selector ends: what cleanup signalled and what it left playing
SelectorEnds(s, pc) ==
    LET t == cleanup(s) IN
    [t EXCEPT !.pc = pc,
              !.signalled = {c \in PreviewIds : s.children[c] = "running"
                                                /\ t.children[c] = "signalled"},
              !.left = Unsignalled(t)]

\* cli.ts:296-300: Enter, newline or space; the process goes on, its
\* timers and child handlers stay
KeyEnter ==
    /\ procs.pc = "selecting"
    /\ procs' = SelectorEnds(procs, "resolved")
    /\ SelectorFrame

\* cli.ts:279-281: Ctrl+C; the process ends, the children do not
KeyCtrlC ==
    /\ procs.pc = "selecting"
    /\ procs' = SelectorEnds(procs, "exited")
    /\ SelectorFrame

\* cli.ts:235-237: the debounce timer fires
DebounceFires ==
    /\ procs.pc # "exited"
    /\ procs.debounceTimeout
    /\ \E c \in PreviewIds :
           /\ procs.children[c] = "unborn"
           /\ procs' = playCurrentSound([procs EXCEPT !.debounceTimeout = FALSE], c)
    /\ SelectorFrame

\* cli.ts:207-209: the 3-second timer fires
AutoKillFires ==
    /\ procs.pc # "exited"
    /\ procs.audioTimeout
    /\ procs' = stopCurrentAudio(procs)
    /\ SelectorFrame

\* a preview ends, by itself or after the signal
ChildEnds ==
    /\ \E c \in PreviewIds :
           /\ procs.children[c] \in {"running", "signalled"}
           /\ procs' = [procs EXCEPT !.children[c] = "exited"]
    /\ SelectorFrame

\* cli.ts:211-217: the 'exit' event of a preview is handled
ExitEvent ==
    /\ procs.pc # "exited"
    /\ \E c \in PreviewIds :
           /\ procs.children[c] = "exited"
           /\ procs' = onExit(procs, c)
    /\ SelectorFrame

SelectorNext ==
    \/ KeyUp
    \/ KeyDown
    \/ KeyEnter
    \/ KeyCtrlC
    \/ DebounceFires
    \/ AutoKillFires
    \/ ChildEnds
    \/ ExitEvent

SelectorSpec == SelectorInit /\ [][SelectorNext]_vars

\* C27: in the sound selector the preview that is running is the one the
\* selector tracks, and when the selector ends on Ctrl+C or on a
\* confirmed choice no preview is left running without a termination
\* signal, whatever the order of key presses, timers and child exits.
C27_RunningPreviewSignalled ==
    /\ procs.pc = "selecting"
           => \A c \in PreviewIds :
                  procs.children[c] = "running" => procs.audioProcess = c
    /\ procs.pc \in {"resolved", "exited"} => procs.left = {}

\* the selector ended while a preview was playing and cleanup signalled it
C27_Witness ==
    /\ procs.pc \in {"resolved", "exited"}
    /\ procs.signalled # {}

----------------------------------------------------------------------------
(* Two saves at the same time, on IoSpec                                   *)

\* both invocations saved and ended, and no file-system call was made to
\* fail from outside: what went wrong, if anything, the two did to each
\* other
BothSaved ==
    \A i \in Invocations :
        /\ procs[i].pc \in {"done", "failed"}
        /\ procs[i].saves > 0
        /\ procs[i].error # "EIO"

\* C28: when two invocations run the save sequence at the same time, each
\* save completes without error and the settings file ends as one of the
\* two complete documents: the paths settings.json.tmp and
\* settings.json.backup that both writers use never make a rename fail,
\* and the writer that renamed last installed its own text.
C28_SharedSiblingsHarmless ==
    BothSaved =>
        /\ \A i \in Invocations : procs[i].pc = "done" /\ procs[i].error = ""
        /\ \E i \in Invocations : fs[settingsPath] = procs[i].text
        /\ \A i \in Invocations :
               procs[i].renamedLast => fs[settingsPath] = procs[i].text

\* C28: two invocations that ran side by side both saved a change of their
\* own without error, and the settings file is the text of the one that
\* renamed last.
C28_Witness ==
    /\ BothSaved
    /\ \A i \in Invocations :
           procs[i].pc = "done" /\ procs[i].ret = "op" /\ ~procs[i].follows
    /\ \E i \in Invocations, j \in Invocations :
           /\ procs[i].text # procs[j].text
           /\ procs[i].renamedLast
           /\ fs[settingsPath] = procs[i].text

----------------------------------------------------------------------------
(* The doctor command: the count of configured and of valid hooks          *)

\* utils.ts:158-171, the entries of one managed group from the first of
\* hooks on: one record in invalidHooks for every command entry whose
\* audio file is not found
RECURSIVE diagnoseHooks(_, _, _, _)
diagnoseHooks(p, snd, event, hooks) ==
    IF hooks = <<>> THEN <<>>
    ELSE LET hook == Head(hooks)
             audioFile == extractAudioFile(hook.command)
         IN  (IF hook.type = "command" /\ hook.command # <<>> /\ audioFile.ok
                 /\ ~validateAudioFile(p, snd, audioFile.path)
              THEN <<[event |-> event, error |-> audioFile.path]>>
              ELSE <<>>)
             \o diagnoseHooks(p, snd, event, Tail(hooks))

\* utils.ts:154-173, the loop over the groups of an event from the i-th on:
\* ccsoundHooks goes up by one for a managed group
RECURSIVE diagnoseGroups(_, _, _, _, _, _)
diagnoseGroups(p, snd, event, eventHooks, i, acc) ==
    IF i > Len(eventHooks) THEN acc
    ELSE diagnoseGroups(p, snd, event, eventHooks, i + 1,
             IF doctorIsManaged(eventHooks[i])
             THEN [ccsoundHooks |-> acc.ccsoundHooks + 1,
                   invalidHooks |-> acc.invalidHooks
                                      \o diagnoseHooks(p, snd, event, eventHooks[i].hooks)]
             ELSE acc)

\* utils.ts:151-174, the loop over VALID_EVENTS from the i-th on
RECURSIVE diagnoseEvents(_, _, _, _, _)
diagnoseEvents(p, snd, config, i, acc) ==
    IF i > Len(VALID_EVENTS) THEN acc
    ELSE diagnoseEvents(p, snd, config, i + 1,
             diagnoseGroups(p, snd, VALID_EVENTS[i],
                            getEventHooks(config, VALID_EVENTS[i]), 1, acc))

\* utils.ts:93-179 runDiagnostics: the settings file when it ends, the exit
\* code, the two counts and the number printed as valid
runDiagnostics(p, snd, file) ==
    LET rd == readSettingsFile(file)
        r == diagnoseEvents(p, snd, rd.config, 1,
                            [ccsoundHooks |-> 0, invalidHooks |-> <<>>])
    IN  IF rd.status = "exit"
        THEN [outcome |-> "parse-error", exit |-> 1, disk |-> rd.disk,
              ccsoundHooks |-> 0, invalidHooks |-> <<>>, valid |-> 0]
        ELSE [outcome |-> "ok", exit |-> 0, disk |-> rd.disk,
              ccsoundHooks |-> r.ccsoundHooks, invalidHooks |-> r.invalidHooks,
              valid |-> r.ccsoundHooks - Len(r.invalidHooks)]

PathLost == <<"/", "h", "/", "n">>  \* /h/n, no such file

\* a managed group with two entries of the tool whose files are gone
GTwoGone(p) ==
    [hooks |-> << [type |-> "command", command |-> PlayCommand(p, PathGone),
                   _ccsound |-> OldMark(TRUE)],
                  [type |-> "command", command |-> PlayCommand(p, PathLost),
                   _ccsound |-> OldMark(TRUE)] >>]

DiagnosedGroups(p) == ListedGroups(p) \cup {GTwoGone(p), GManaged(p, PathGone)}

DiagnosedDocs(p) ==
    {[model |-> "opus", hooks |-> [Stop |-> <<a, b>>, Notification |-> <<c>>]] :
         a \in DiagnosedGroups(p), b \in DiagnosedGroups(p),
         c \in {GManaged(p, PathA), GForeign}}
    \cup {DocNoHooks, DocTidy(p), DocCrowded(p)}

DoctorInit ==
    /\ platform = "darwin" /\ sounds = {}
    /\ settings \in {Absent, Malformed} \cup {FileOf(doc, "foreign") : doc \in DiagnosedDocs(platform)}
    /\ pending = <<>>
    /\ cli = Command("none", <<>>, FALSE, 0, settings)
    /\ last = NoCall(settings)
    /\ fs = <<>> /\ procs = <<>> /\ accessed = {}

\* cli.ts:439-444, doctor
DoctorCmd ==
    /\ LET r == runDiagnostics(platform, sounds, settings) IN
           /\ settings' = r.disk
           /\ last' = [op |-> "doctor", outcome |-> r.outcome, exit |-> r.exit,
                       ccsoundHooks |-> r.ccsoundHooks, invalidHooks |-> r.invalidHooks,
                       valid |-> r.valid, before |-> settings]
           /\ cli' = Command("doctor", <<>>, FALSE, r.exit, settings)
    /\ UNCHANGED <<platform, sounds, pending, fs, procs, accessed>>

DoctorSpec == DoctorInit /\ [][DoctorCmd]_vars

\* C30: in the report of doctor the number of valid hooks, the configured
\* managed groups minus the recorded invalid entries, is between 0 and the
\* number of configured managed groups, whatever the document, managed
\* groups with several command entries included.
C30_ValidHooksInRange ==
    last.op = "doctor" /\ last.outcome = "ok"
        => last.valid >= 0 /\ last.valid <= last.ccsoundHooks

\* doctor reported on a document with a managed group of two command
\* entries, one invalid entry recorded
C30_Witness ==
    /\ last.op = "doctor" /\ last.outcome = "ok"
    /\ GroupsOf(last.before, "Stop") = <<GTwoSounds(platform), GManaged(platform, PathGone)>>
    /\ GroupsOf(last.before, "Notification") = <<GManaged(platform, PathA)>>
    /\ last.ccsoundHooks = 3
    /\ Len(last.invalidHooks) = 1
    /\ last.valid = 2

====
